---- MODULE Spec2Model ----
(***************************************************************************)
(* A model of the SharpScript tree-walking evaluator (src/src/interpreter.c)*)
(*                                                                         *)
(* The evaluator is a recursive C function, eval_node.  The model keeps    *)
(* the C call stack explicitly: `stack` holds one activation record for    *)
(* every eval_node invocation that owns a statement block (the root block, *)
(* an if/block statement, a while loop, a try statement, a user-function   *)
(* call, a namespace body).  The script being run is not fixed: at every   *)
(* block position the next statement is chosen nondeterministically, so    *)
(* the behaviours of the model are the runs of all scripts whose nesting   *)
(* stays within the bounds below.                                          *)
(*                                                                         *)
(* The specifications share the state and the entry point:                 *)
(*   Spec      control flow: blocks, loops, calls, namespaces, try/throw   *)
(*   SpecEnv   variables and closures: declare, assign, read, call, return *)
(*   SpecHeap  arrays and strings: the storage behind the Values           *)
(*   SpecArgs  parameters, arguments and defaults of a call                *)
(*   SpecDecl  declarations with a type annotation                         *)
(*   SpecWord  compound assignment in symbol and in word form              *)
(*   SpecMatch match statements                                            *)
(*   SpecParse #include and #involve in the parser (src/src/parser.c)      *)
(*   SpecThrow system.throw and the error Value it makes                   *)
(*   SpecNs    namespaces and calls through a qualified name               *)
(*   SpecEnum  enum declarations                                           *)
(*   SpecOrder the order in which operands and arguments are evaluated     *)
(*   SpecLoop  for and for-in loops with break, continue and return        *)
(*   SpecCalc  the calculator memory: system.store, recall, memclear       *)
(*   SpecHist  the history: system.history.add, get, clear                 *)
(*   SpecLex   the lexer on comments and directives (lexer.c)              *)
(*   SpecFor   the parser on C-style for statements                        *)
(*   SpecType  assignments to bindings with a recorded type                *)
(*   SpecBody  declarations inside if, while and try bodies                *)
(*   SpecTerm  the parser step by step, on every short token stream        *)
(***************************************************************************)
EXTENDS Integers, Sequences, FiniteSets, TLC

\* ---------------------------------------------------------------- bounds
MaxDepth == 3
MaxTry == 2
MaxFrames == 2
MaxEvals == 1
MaxEnvFrames == 3
MaxNum == 1
MaxBufs == 5
MaxHistory == 1
MaxArgs == 3

\* ---------------------------------------------------------------- state
VARIABLES
    stack,          \* activations of eval_node (of the parse_* functions
                    \* while the parser runs), outermost first
    mode,           \* "idle" | "blk" | "unwind" | "crash" | "parse"
    val,            \* the Value most recently produced by eval_node
    jmp_buf,        \* interp->jmp_buf
    current_error,  \* interp->current_error
    current,        \* interp->current (a frame id)
    frames,         \* every Environment created so far, by id
    ntry,           \* try statements entered so far (ids of try activations)
    nevals,         \* interpreter_eval calls made so far
    thrownIn,       \* history: id of the innermost try whose try body was
                    \* running when the error in flight was thrown (0: none)
    diag,           \* the last diagnostic line written to stderr ("": none)
    heap,           \* every array element buffer and string allocated so far
    calc_mem,       \* the calculator memory Environment
    history,        \* the history Values, oldest first
    parser,         \* the Parser instances of the parse under way, the
                    \* main file's first, an included file's after its includer
    lexer,          \* the Lexer of the main file and the tokens it has given
    stdout          \* the lines written to stdout, oldest first

vars == <<stack, mode, val, jmp_buf, current_error, current, frames, ntry,
          nevals, thrownIn, diag, heap, calc_mem, history, parser, lexer, stdout>>

\* ---------------------------------------------------------------- values
Null == [t |-> "null", n |-> 0, cl |-> 0, of |-> ""]
Num(n) == [t |-> "number", n |-> n, cl |-> 0, of |-> ""]
Fun(closure) == [t |-> "function", n |-> 0, cl |-> closure, of |-> ""]
Err == [t |-> "error", n |-> 0, cl |-> 0, of |-> ""]
Break == [t |-> "break", n |-> 0, cl |-> 0, of |-> ""]
Continue == [t |-> "continue", n |-> 0, cl |-> 0, of |-> ""]
Return(v) == [t |-> "return", n |-> v.n, cl |-> v.cl, of |-> v.t]
Unwrap(r) == [t |-> r.of, n |-> r.n, cl |-> r.cl, of |-> ""]

NoValue == [t |-> "NULLPTR", n |-> 0, cl |-> 0, of |-> ""]

\* Not a Value: the outcome "the process died" of a read of freed memory
Crash == [t |-> "SIGSEGV", n |-> 0, cl |-> 0, of |-> ""]

IsSentinel(v) == v.t \in {"break", "continue", "return"}

\* NULL pointer and the indeterminate contents of malloc'ed memory
NULL == "NULL"
Garbage == "garbage"

\* type_name(val)
type_name(v) ==
    IF v.t \in {"number", "string", "boolean", "null", "function", "array", "map"}
    THEN v.t ELSE "unknown"

\* ---------------------------------------------------------------- environments
\* A name is a sequence of its dot-separated parts: x is <<"x">>, N.x <<"N", "x">>
Name(x) == <<x>>
Qualified(ns, name) == <<ns>> \o name

Binding(name, value, is_const, type) ==
    [name |-> name, value |-> value, is_const |-> is_const, type |-> type]

IndexOf(vs, name) ==
    IF \E i \in 1..Len(vs) : vs[i].name = name
    THEN CHOOSE i \in 1..Len(vs) :
            vs[i].name = name /\ \A j \in 1..(i - 1) : vs[j].name # name
    ELSE 0

\* env_create: the new frame's id is Len(F) + 1
env_create(F, parent) ==
    Append(F, [parent |-> parent, alive |-> TRUE, vars |-> <<>>])

\* env_free: the frame's storage is released; parents are not freed
env_free(F, e) ==
    [F EXCEPT ![e] = [parent |-> @.parent, alive |-> FALSE, vars |-> <<>>]]

\* env_set: looks in frame e only (no parent walk)
env_set(F, e, name, value) ==
    LET vs == F[e].vars
        i == IndexOf(vs, name)
    IN IF i # 0
       THEN IF vs[i].is_const
            THEN F
            ELSE IF vs[i].type # NULL /\ vs[i].type # type_name(value)
                    /\ vs[i].type # "unknown"
                 THEN F
                 ELSE [F EXCEPT ![e].vars[i].value = value]
       ELSE [F EXCEPT ![e].vars = Append(vs, Binding(name, value, FALSE, NULL))]

\* env_declare
env_declare(F, e, name, value, is_const) ==
    LET vs == F[e].vars
    IN IF IndexOf(vs, name) # 0
       THEN F
       ELSE [F EXCEPT ![e].vars =
                Append(vs, Binding(name, value, is_const, type_name(value)))]

\* The frame of the chain starting at e that binds name (0: none)
RECURSIVE env_find(_, _, _)
env_find(F, e, name) ==
    IF e = 0 THEN 0
    ELSE IF IndexOf(F[e].vars, name) # 0 THEN e
    ELSE env_find(F, F[e].parent, name)

\* env_has
env_has(F, e, name) == env_find(F, e, name) # 0

\* env_get: NoValue (a NULL Value pointer) when the chain does not bind name
env_get(F, e, name) ==
    LET fe == env_find(F, e, name)
    IN IF fe = 0 THEN NoValue ELSE F[fe].vars[IndexOf(F[fe].vars, name)].value

\* What stderr shows last after env_set / env_declare, d being the last line
\* written before
env_set_diag(F, e, name, value, d) ==
    LET vs == F[e].vars
        i == IndexOf(vs, name)
    IN IF i = 0 THEN d
       ELSE IF vs[i].is_const THEN "Cannot assign to const variable"
       ELSE IF vs[i].type # NULL /\ vs[i].type # type_name(value)
               /\ vs[i].type # "unknown"
            THEN "Type mismatch"
       ELSE d

env_declare_diag(F, e, name, d) ==
    IF IndexOf(F[e].vars, name) # 0 THEN "Variable already declared" ELSE d

\* env_get / env_has from frame e reads a frame that env_free has released
\* before it meets a binding of name
RECURSIVE Dangling(_, _, _)
Dangling(F, e, name) ==
    IF e = 0 THEN FALSE
    ELSE IF ~F[e].alive THEN TRUE
    ELSE IF IndexOf(F[e].vars, name) # 0 THEN FALSE
    ELSE Dangling(F, F[e].parent, name)

\* The results env_get can give.  A lookup that reads freed memory is
\* undefined: the process dies, or the walk ends without a match, or it
\* matches whatever the memory holds now.
Lookup(F, e, name) ==
    IF Dangling(F, e, name)
    THEN {Crash, NoValue} \cup {Num(n) : n \in 0..MaxNum}
    ELSE {env_get(F, e, name)}

\* ---------------------------------------------------------------- activations
Act(k, id, ph, hc, hf, saved, fenv) ==
    [k |-> k, id |-> id, ph |-> ph, hc |-> hc, hf |-> hf,
     res |-> Null, fin |-> 0, saved |-> saved, fenv |-> fenv, dst |-> <<>>,
     args |-> <<>>]

\* A try activation as setjmp found it: in its try block, `result` null
TryAct(id, hc, hf) == Act("try", id, "try", hc, hf, 0, 0)

BlockAct == Act("block", 0, "body", FALSE, FALSE, 0, 0)
LoopAct == Act("loop", 0, "body", FALSE, FALSE, 0, 0)

Top == stack[Len(stack)]
Pop == SubSeq(stack, 1, Len(stack) - 1)
SetTop(a) == [stack EXCEPT ![Len(stack)] = a]

\* A statement of the top activation's block can be evaluated: the block's
\* loop has not met a sentinel (AST_BLOCK returns as soon as it sees one)
AtStmt == mode = "blk" /\ stack # <<>> /\ ~IsSentinel(val)
CanPush == Len(stack) < MaxDepth

\* The result of an eval_node call goes back to its caller: the enclosing
\* activation, or interpreter_eval's caller when the stack is empty
ReturnTo(s, v) ==
    /\ stack' = s
    /\ val' = v
    /\ mode' = IF s = <<>> THEN "idle" ELSE "blk"

\* The process is gone
Crashes ==
    /\ stack' = <<>>
    /\ val' = Null
    /\ mode' = "crash"

\* ---------------------------------------------------------------- Init
Init ==
    /\ stack = <<>>
    /\ mode = "idle"
    /\ val = Null
    /\ jmp_buf = [set |-> FALSE, depth |-> 0, id |-> 0, hc |-> FALSE, hf |-> FALSE]
    /\ current_error \in {NULL, Garbage}
    /\ current = 1
    /\ frames = env_create(<<>>, 0)
    /\ ntry = 0
    /\ nevals = 0
    /\ thrownIn = 0
    /\ diag = ""
    /\ heap = <<>>
    /\ calc_mem = env_create(<<>>, 0)
    /\ history = <<>>
    /\ parser = <<>>
    /\ lexer = [source |-> <<>>, position |-> 0, tokens |-> <<>>]
    /\ stdout = <<>>

\* ---------------------------------------------------------------- entry point
\* interpreter_eval: eval_node on the root block parser_parse built
InterpreterEval ==
    /\ mode = "idle"
    /\ nevals < MaxEvals
    /\ nevals' = nevals + 1
    /\ stack' = <<BlockAct>>
    /\ mode' = "blk"
    /\ val' = Null
    /\ UNCHANGED <<jmp_buf, current_error, current, frames, ntry, thrownIn>>
    /\ UNCHANGED <<diag, heap, calc_mem, history, parser, lexer, stdout>>

\* ---------------------------------------------------------------- statements
\* AST_NUMBER, AST_STRING, AST_BOOLEAN, AST_NULL as a statement: a fresh Value
EvalLiteral ==
    /\ AtStmt
    /\ val' = Num(1)
    /\ UNCHANGED <<stack, mode, jmp_buf, current_error, current, frames, ntry,
                   nevals, thrownIn>>
    /\ UNCHANGED <<diag, heap, calc_mem, history, parser, lexer, stdout>>

\* AST_BREAK
EvalBreak ==
    /\ AtStmt
    /\ val' = Break
    /\ UNCHANGED <<stack, mode, jmp_buf, current_error, current, frames, ntry,
                   nevals, thrownIn>>
    /\ UNCHANGED <<diag, heap, calc_mem, history, parser, lexer, stdout>>

\* AST_CONTINUE
EvalContinue ==
    /\ AtStmt
    /\ val' = Continue
    /\ UNCHANGED <<stack, mode, jmp_buf, current_error, current, frames, ntry,
                   nevals, thrownIn>>
    /\ UNCHANGED <<diag, heap, calc_mem, history, parser, lexer, stdout>>

\* AST_RETURN of a literal
EvalReturn ==
    /\ AtStmt
    /\ val' = Return(Null)
    /\ UNCHANGED <<stack, mode, jmp_buf, current_error, current, frames, ntry,
                   nevals, thrownIn>>
    /\ UNCHANGED <<diag, heap, calc_mem, history, parser, lexer, stdout>>

\* AST_IF with a truthy condition (or a nested block): eval_node on the block
EvalIf ==
    /\ AtStmt /\ CanPush
    /\ stack' = Append(stack, BlockAct)
    /\ val' = Null
    /\ UNCHANGED <<mode, jmp_buf, current_error, current, frames, ntry, nevals,
                   thrownIn>>
    /\ UNCHANGED <<diag, heap, calc_mem, history, parser, lexer, stdout>>

\* AST_BLOCK: the statements are exhausted, or the last one gave a sentinel;
\* the block returns `result` as it is
BlockDone ==
    /\ mode = "blk" /\ stack # <<>>
    /\ Top.k = "block"
    /\ ReturnTo(Pop, val)
    /\ UNCHANGED <<jmp_buf, current_error, current, frames, ntry, nevals, thrownIn>>
    /\ UNCHANGED <<diag, heap, calc_mem, history, parser, lexer, stdout>>

\* AST_WHILE: the condition is truthy and the body block is entered
EvalWhile ==
    /\ AtStmt /\ CanPush
    /\ stack' = Append(stack, LoopAct)
    /\ val' = Null
    /\ UNCHANGED <<mode, jmp_buf, current_error, current, frames, ntry, nevals,
                   thrownIn>>
    /\ UNCHANGED <<diag, heap, calc_mem, history, parser, lexer, stdout>>

\* AST_WHILE after the body block returned `result`
WhileBodyDone ==
    /\ mode = "blk" /\ stack # <<>>
    /\ Top.k = "loop"
    /\ \/ /\ val.t = "break"              \* return value_create_null()
          /\ ReturnTo(Pop, Null)
       \/ /\ val.t = "return"             \* return result
          /\ ReturnTo(Pop, val)
       \/ /\ val.t \notin {"break", "return"}  \* condition truthy again
          /\ val' = Null
          /\ UNCHANGED <<stack, mode>>
       \/ /\ val.t \notin {"break", "return"}  \* condition falsy: return result
          /\ ReturnTo(Pop, IF val.t = "continue" THEN Null ELSE val)
    /\ UNCHANGED <<jmp_buf, current_error, current, frames, ntry, nevals, thrownIn>>
    /\ UNCHANGED <<diag, heap, calc_mem, history, parser, lexer, stdout>>

\* ---------------------------------------------------------------- functions
\* AST_FUNCTION: a function Value capturing interp->current, bound by env_set
EvalFunction ==
    /\ AtStmt
    /\ frames' = env_set(frames, current, Name("f"), Fun(current))
    /\ diag' = env_set_diag(frames, current, Name("f"), Fun(current), diag)
    /\ val' = Null
    /\ UNCHANGED <<stack, mode, jmp_buf, current_error, current, ntry, nevals,
                   thrownIn>>
    /\ UNCHANGED <<heap, calc_mem, history, parser, lexer, stdout>>

\* AST_CALL of a user function without parameters, past the test that the
\* name is bound to a function: the new frame's parent is the function's
\* closure; interp->current is saved and swapped.  dst is the name that the
\* enclosing `&insert dst = fn()` declares (<<>>: the call is a statement).
EvalCallOf(fn, dst, maxFrames) ==
    /\ AtStmt /\ CanPush
    /\ Len(frames) < maxFrames
    /\ \E func \in Lookup(frames, current, fn) :
          IF func = Crash
          THEN Crashes /\ UNCHANGED <<frames, current>>
          ELSE /\ func.t = "function"
               /\ frames' = env_create(frames, func.cl)
               /\ stack' = Append(stack,
                      [Act("call", 0, "body", FALSE, FALSE, current,
                           Len(frames) + 1) EXCEPT !.dst = dst])
               /\ current' = Len(frames) + 1
               /\ val' = Null
               /\ mode' = mode
    /\ UNCHANGED <<jmp_buf, current_error, ntry, nevals, thrownIn>>
    /\ UNCHANGED <<diag, heap, calc_mem, history, parser, lexer, stdout>>

\* the statement `f()`
EvalCall == EvalCallOf(Name("f"), <<>>, MaxFrames)

\* AST_CALL after the body returned: interp->current = saved_env, a Return is
\* unwrapped, any other result is dropped for null, func_env is freed
CallDone ==
    /\ mode = "blk" /\ stack # <<>>
    /\ Top.k = "call"
    /\ current' = Top.saved
    /\ LET ret == IF val.t = "return" THEN Unwrap(val) ELSE Null
           freed == env_free(frames, Top.fenv)
       IN IF Top.dst = <<>>
          THEN /\ frames' = freed
               /\ diag' = diag
               /\ ReturnTo(Pop, ret)
          ELSE \* AST_ASSIGN, TOKEN_INSERT: env_declare in interp->current
               /\ frames' = env_declare(freed, Top.saved, Top.dst, ret, FALSE)
               /\ diag' = env_declare_diag(freed, Top.saved, Top.dst, diag)
               /\ ReturnTo(Pop, Null)
    /\ UNCHANGED <<jmp_buf, current_error, ntry, nevals, thrownIn>>
    /\ UNCHANGED <<heap, calc_mem, history, parser, lexer, stdout>>

\* AST_NAMESPACE: the body runs in a fresh frame whose parent is current
EvalNamespaceOf(maxFrames) ==
    /\ AtStmt /\ CanPush
    /\ Len(frames) < maxFrames
    /\ frames' = env_create(frames, current)
    /\ stack' = Append(stack,
           Act("ns", 0, "body", FALSE, FALSE, current, Len(frames) + 1))
    /\ current' = Len(frames) + 1
    /\ val' = Null
    /\ UNCHANGED <<mode, jmp_buf, current_error, ntry, nevals, thrownIn>>
    /\ UNCHANGED <<diag, heap, calc_mem, history, parser, lexer, stdout>>

\* the statement `namespace N { ... }`
EvalNamespace == EvalNamespaceOf(MaxFrames)

\* A re-publication that declares every member as a variable
RECURSIVE RepublishAsVariables(_, _, _, _)
RepublishAsVariables(F, saved, vs, i) ==
    IF i > Len(vs) THEN F
    ELSE RepublishAsVariables(
            env_declare(F, saved, Qualified("N", vs[i].name), vs[i].value, FALSE),
            saved, vs, i + 1)

\* Every binding of ns_env declared in `saved` under "N.<name>", in order
RECURSIVE Republish(_, _, _, _)
Republish(F, saved, vs, i) ==
    IF i > Len(vs) THEN F
    ELSE Republish(env_declare(F, saved, Qualified("N", vs[i].name), vs[i].value,
                               vs[i].is_const),
                   saved, vs, i + 1)

\* What stderr shows last after the re-publication
RECURSIVE RepublishDiag(_, _, _, _, _)
RepublishDiag(F, saved, vs, i, d) ==
    IF i > Len(vs) THEN d
    ELSE RepublishDiag(env_declare(F, saved, Qualified("N", vs[i].name),
                                   vs[i].value, vs[i].is_const),
                       saved, vs, i + 1,
                       env_declare_diag(F, saved, Qualified("N", vs[i].name), d))

\* AST_NAMESPACE after the body: the result is dropped, the bindings are
\* re-published in the saved frame, interp->current = saved; ns_env is kept
NamespaceDone ==
    /\ mode = "blk" /\ stack # <<>>
    /\ Top.k = "ns"
    /\ frames' = Republish(frames, Top.saved, frames[Top.fenv].vars, 1)
    /\ diag' = RepublishDiag(frames, Top.saved, frames[Top.fenv].vars, 1, diag)
    /\ current' = Top.saved
    /\ ReturnTo(Pop, Null)
    /\ UNCHANGED <<jmp_buf, current_error, ntry, nevals, thrownIn>>
    /\ UNCHANGED <<heap, calc_mem, history, parser, lexer, stdout>>

\* ---------------------------------------------------------------- try / throw
\* AST_TRY_CATCH, first part: setjmp(interp->jmp_buf) returns 0 and the try
\* block is entered.  The one jmp_buf of the interpreter is overwritten.
EvalTry ==
    /\ AtStmt /\ CanPush
    /\ ntry < MaxTry
    /\ \E hc \in BOOLEAN, hf \in BOOLEAN :
          /\ stack' = Append(stack, TryAct(ntry + 1, hc, hf))
          /\ jmp_buf' = [set |-> TRUE, depth |-> Len(stack) + 1, id |-> ntry + 1,
                         hc |-> hc, hf |-> hf]
    /\ ntry' = ntry + 1
    /\ val' = Null
    /\ UNCHANGED <<mode, current_error, current, frames, nevals, thrownIn>>
    /\ UNCHANGED <<diag, heap, calc_mem, history, parser, lexer, stdout>>

\* The finally block is entered (if there is one), else the try statement
\* returns `result`
AfterTryOrCatch(a, result) ==
    IF a.hf
    THEN /\ stack' = SetTop([a EXCEPT !.ph = "finally", !.res = result,
                                      !.fin = IF @ < 2 THEN @ + 1 ELSE @])
         /\ val' = Null
         /\ mode' = "blk"
    ELSE ReturnTo(Pop, result)

\* AST_TRY_CATCH: the try block or the catch block returned `result`
TryBodyDone ==
    /\ mode = "blk" /\ stack # <<>>
    /\ Top.k = "try" /\ Top.ph \in {"try", "catch"}
    /\ AfterTryOrCatch(Top, val)
    /\ UNCHANGED <<jmp_buf, current_error, current, frames, ntry, nevals, thrownIn>>
    /\ UNCHANGED <<diag, heap, calc_mem, history, parser, lexer, stdout>>

\* AST_TRY_CATCH: the finally block returned; its Value is freed and the
\* try statement returns `result`
FinallyDone ==
    /\ mode = "blk" /\ stack # <<>>
    /\ Top.k = "try" /\ Top.ph = "finally"
    /\ ReturnTo(Pop, Top.res)
    /\ UNCHANGED <<jmp_buf, current_error, current, frames, ntry, nevals, thrownIn>>
    /\ UNCHANGED <<diag, heap, calc_mem, history, parser, lexer, stdout>>

\* The innermost try activation whose try block is running (0: none)
RECURSIVE NearestTry(_, _)
NearestTry(s, i) ==
    IF i = 0 THEN 0
    ELSE IF s[i].k = "try" /\ s[i].ph = "try" THEN s[i].id
    ELSE NearestTry(s, i - 1)

\* The position in s of the try activation with this id (0: it has returned)
LiveAt(s, id) ==
    IF \E i \in 1..Len(s) : s[i].k = "try" /\ s[i].id = id
    THEN CHOOSE i \in 1..Len(s) : s[i].k = "try" /\ s[i].id = id
    ELSE 0

\* What longjmp(interp->jmp_buf, 1) can do, as the set of <<stack, mode>> it
\* can leave.  A jmp_buf filled by a setjmp whose eval_node activation is
\* still on the stack: control resumes there, the activations above are
\* dropped.  A jmp_buf never filled, or one whose activation has returned:
\* undefined behaviour; the process crashes, or (if the stack memory of the
\* dead activation is intact) control resumes in the dead activation.
\* A crashed process has no stack left.
longjmp(s, jb) ==
    IF ~jb.set
    THEN {<<<<>>, "crash">>}
    ELSE LET i == LiveAt(s, jb.id)
         IN IF i # 0
            THEN {<<SubSeq(s, 1, i), "unwind">>}
            ELSE {<<<<>>, "crash">>} \cup
                 (IF Len(s) >= jb.depth - 1
                  THEN {<<Append(SubSeq(s, 1, jb.depth - 1),
                                  TryAct(jb.id, jb.hc, jb.hf)), "unwind">>}
                  ELSE {})

\* system.throw -> throw_error: interp->current_error = error; longjmp
ThrowError ==
    /\ AtStmt
    /\ current_error' = "error"
    /\ thrownIn' = NearestTry(stack, Len(stack))
    /\ \E out \in longjmp(stack, jmp_buf) :
          /\ stack' = out[1]
          /\ mode' = out[2]
          /\ val' = IF out[2] = "crash" THEN Null ELSE val
    /\ UNCHANGED <<jmp_buf, current, frames, ntry, nevals>>
    /\ UNCHANGED <<diag, heap, calc_mem, history, parser, lexer, stdout>>

\* AST_TRY_CATCH, setjmp returned non-zero: error_value = current_error,
\* current_error = NULL; with a catch clause `catch (e)` the error is bound
\* to e in interp->current and the catch block is entered
CatchSite ==
    /\ mode = "unwind"
    /\ current_error' = NULL
    /\ thrownIn' = 0
    /\ IF Top.hc /\ current_error # NULL
       THEN /\ frames' = env_set(frames, current, Name("e"), Err)
            /\ stack' = SetTop([Top EXCEPT !.ph = "catch"])
            /\ val' = Null
            /\ mode' = "blk"
       ELSE /\ AfterTryOrCatch(Top, Null)
            /\ frames' = frames
    /\ UNCHANGED <<jmp_buf, current, ntry, nevals>>
    /\ UNCHANGED <<diag, heap, calc_mem, history, parser, lexer, stdout>>

\* ---------------------------------------------------------------- specification
Next ==
    \/ InterpreterEval
    \/ EvalLiteral
    \/ EvalBreak
    \/ EvalContinue
    \/ EvalReturn
    \/ EvalIf
    \/ BlockDone
    \/ EvalWhile
    \/ WhileBodyDone
    \/ EvalFunction
    \/ EvalCall
    \/ CallDone
    \/ EvalNamespace
    \/ NamespaceDone
    \/ EvalTry
    \/ TryBodyDone
    \/ FinallyDone
    \/ ThrowError
    \/ CatchSite

Spec == Init /\ [][Next]_vars

\* ---------------------------------------------------------------- claims C1-C4, C10
\* C1: a structured error is always delivered to the catch site of the
\* innermost try statement whose try body was running at the throw, and
\* never to a try statement whose try body was not running.
C1_DeliveredToNearestTry ==
    /\ mode = "unwind" => (Top.k = "try" /\ Top.id = thrownIn)
    /\ mode = "crash" => thrownIn = 0

\* The frame interp->current must be: the frame of the innermost function
\* call or namespace body still running, the global frame when there is none
RECURSIVE FrameOf(_, _)
FrameOf(s, i) ==
    IF i = 0 THEN 1
    ELSE IF s[i].k \in {"call", "ns"} THEN s[i].fenv
    ELSE FrameOf(s, i - 1)

\* C2: whenever statements run (in particular in a catch body, and after a
\* call or namespace body was left by a throw), interp->current is the frame
\* of the innermost call or namespace still running: the swap made on entry
\* is undone on normal and on exceptional exit.
C2_CurrentRestoredOnExit ==
    mode \in {"blk", "idle"} => current = FrameOf(stack, Len(stack))

\* C3: the finally body of a try statement runs exactly once per execution
\* of the statement: it is never started a second time.
C3_FinallyExactlyOnce ==
    \A i \in 1..Len(stack) :
        (stack[i].k = "try" /\ stack[i].hf) =>
            /\ stack[i].fin <= 1
            /\ (stack[i].ph = "finally" => stack[i].fin = 1)

\* C4: interpreter_eval never returns a Break, Continue or Return sentinel.
C4_NoSentinelEscapes ==
    mode = "idle" => ~IsSentinel(val)

\* C10: current_error is empty in every state where no throw is in flight.
C10_ErrorSlotEmptyUnlessUnwinding ==
    mode \in {"idle", "blk"} => current_error = NULL

\* ---------------------------------------------------------------- variables and closures
\* The statements that declare, assign and read the variable x, define the
\* function f, call f or g, and return a name's value.  The other variables
\* of the interpreter are not touched by them.
EnvUnchanged == UNCHANGED <<jmp_buf, current_error, ntry, nevals, thrownIn,
                            heap, calc_mem, history, parser, lexer, stdout>>

\* AST_ASSIGN with TOKEN_INSERT / TOKEN_CONST and no type annotation:
\* `&insert x = 0` / `const x = 0`
EvalDeclare ==
    /\ AtStmt
    /\ \E is_const \in BOOLEAN :
          frames' = env_declare(frames, current, Name("x"), Num(0), is_const)
    /\ diag' = env_declare_diag(frames, current, Name("x"), diag)
    /\ val' = Null
    /\ UNCHANGED <<stack, mode, current>>
    /\ EnvUnchanged

\* AST_ASSIGN with TOKEN_ASSIGN: `x = 1`.  env_has walks the parent chain,
\* env_set is given interp->current.
EvalAssign ==
    /\ AtStmt
    /\ \E has \in Lookup(frames, current, Name("x")) :
          IF has = Crash
          THEN Crashes /\ UNCHANGED <<frames, diag>>
          ELSE /\ IF has = NoValue
                  THEN /\ diag' = "Assignment to undeclared variable"
                       /\ frames' = frames
                  ELSE /\ diag' = env_set_diag(frames, current, Name("x"),
                                               Num(1), diag)
                       /\ frames' = env_set(frames, current, Name("x"), Num(1))
               /\ val' = Null
               /\ UNCHANGED <<stack, mode>>
    /\ UNCHANGED current
    /\ EnvUnchanged

\* AST_ASSIGN with TOKEN_PLUS_ASSIGN: `x += 1`, which is also what the parser
\* makes of `x++`.  env_get walks the parent chain for the old value; env_set
\* is given interp->current.
EvalCompound ==
    /\ AtStmt
    /\ \E old \in Lookup(frames, current, Name("x")) :
          IF old = Crash
          THEN Crashes /\ UNCHANGED <<frames, diag>>
          ELSE LET value == IF old.t = "number" THEN Num(old.n + 1) ELSE Num(1)
               IN /\ value.n <= MaxNum
                  /\ diag' = env_set_diag(frames, current, Name("x"), value, diag)
                  /\ frames' = env_set(frames, current, Name("x"), value)
                  /\ val' = Null
                  /\ UNCHANGED <<stack, mode>>
    /\ UNCHANGED current
    /\ EnvUnchanged

\* AST_IDENTIFIER as a statement: `x`
EvalIdentifier ==
    /\ AtStmt
    /\ \E v \in Lookup(frames, current, Name("x")) :
          IF v = Crash
          THEN Crashes /\ diag' = diag
          ELSE /\ val' = IF v = NoValue THEN Null ELSE v
               /\ diag' = IF v = NoValue THEN "Undefined variable" ELSE diag
               /\ UNCHANGED <<stack, mode>>
    /\ UNCHANGED <<current, frames>>
    /\ EnvUnchanged

\* AST_RETURN of an identifier: `return x` / `return f`
EvalReturnIdentifier ==
    /\ AtStmt
    /\ \E name \in {Name("x"), Name("f")} :
       \E v \in Lookup(frames, current, name) :
          IF v = Crash
          THEN Crashes /\ diag' = diag
          ELSE /\ val' = Return(IF v = NoValue THEN Null ELSE v)
               /\ diag' = IF v = NoValue THEN "Undefined variable" ELSE diag
               /\ UNCHANGED <<stack, mode>>
    /\ UNCHANGED <<current, frames>>
    /\ EnvUnchanged

\* `f()`, `g()`, `&insert g = f()`, `&insert g = g()`
EvalCallStmt ==
    \E fn \in {Name("f"), Name("g")}, dst \in {<<>>, Name("g")} :
        EvalCallOf(fn, dst, MaxEnvFrames)

NextEnv ==
    \/ InterpreterEval
    \/ EvalDeclare
    \/ EvalAssign
    \/ EvalCompound
    \/ EvalIdentifier
    \/ EvalFunction
    \/ EvalCallStmt
    \/ EvalReturnIdentifier
    \/ CallDone
    \/ BlockDone

SpecEnv == Init /\ [][NextEnv]_vars

\* ---------------------------------------------------------------- claims C5-C7, C9
\* Every frame of the chain that starts at e exists (none has been freed)
RECURSIVE ChainAlive(_, _)
ChainAlive(F, e) ==
    IF e = 0 THEN TRUE
    ELSE F[e].alive /\ ChainAlive(F, F[e].parent)

\* C5: the body of every call runs in a frame whose parent chain is the
\* definition-site chain of the callee, and each frame of that chain exists,
\* so that a free name of the body resolves through it.
C5_StaticScoping ==
    \A i \in 1..Len(stack) :
        stack[i].k = "call" => ChainAlive(frames, stack[i].fenv)

\* x as seen from frame e is a const binding
ConstVisible(F, e) ==
    /\ F[e].alive
    /\ ~Dangling(F, e, Name("x"))
    /\ LET fe == env_find(F, e, Name("x"))
       IN fe # 0 /\ F[fe].vars[IndexOf(F[fe].vars, Name("x"))].is_const

\* C6: an assignment to x (plain or compound), made in a frame that sees x
\* as a const binding, reports the const diagnostic, and every frame that
\* read the const value of x before the assignment reads it after it.
C6_ConstNeverAltered ==
    [][((EvalAssign \/ EvalCompound) /\ ConstVisible(frames, current)) =>
          /\ diag' = "Cannot assign to const variable"
          /\ \A e \in 1..Len(frames) :
                ConstVisible(frames, e) =>
                    env_get(frames', e, Name("x")) = env_get(frames, e, Name("x"))
      ]_vars

\* x as seen from the current frame is a mutable number bound in an ancestor
\* frame only
BoundInAncestorOnly(F, e) ==
    /\ ~Dangling(F, e, Name("x"))
    /\ LET fe == env_find(F, e, Name("x"))
       IN /\ fe # 0 /\ fe # e
          /\ ~F[fe].vars[IndexOf(F[fe].vars, Name("x"))].is_const
          /\ env_get(F, e, Name("x")).t = "number"

\* C7: a compound assignment to an x that is bound in an ancestor frame only
\* leaves the combined value in that ancestor binding and creates no binding
\* of x in the current frame.
C7_CompoundUpdatesInPlace ==
    [][(EvalCompound /\ BoundInAncestorOnly(frames, current)) =>
          LET fe == env_find(frames, current, Name("x"))
          IN /\ env_get(frames', fe, Name("x")) =
                    Num(env_get(frames, current, Name("x")).n + 1)
             /\ IndexOf(frames'[current].vars, Name("x")) = 0
      ]_vars

\* The closure frames of the function Values that are live: the one being
\* returned, and those bound in frames that exist
LiveClosures ==
    (IF val.t = "function" \/ (val.t = "return" /\ val.of = "function")
     THEN {val.cl} ELSE {}) \cup
    {frames[e].vars[i].value.cl :
        <<e, i>> \in {p \in (1..Len(frames)) \X (1..4) :
                        /\ frames[p[1]].alive
                        /\ p[2] <= Len(frames[p[1]].vars)
                        /\ frames[p[1]].vars[p[2]].value.t = "function"}}

\* C9: no frame that a live function Value has captured has been freed.
C9_CapturedFrameKept ==
    \A e \in LiveClosures : frames[e].alive

\* ---------------------------------------------------------------- arrays, strings and their storage
\* An array Value points to its element buffer, a string Value to its
\* characters: n is the index in `heap` of that allocation.  A freed
\* allocation keeps what it held (the memory is not cleared).
Arr(b) == [t |-> "array", n |-> b, cl |-> 0, of |-> ""]
Str(b) == [t |-> "string", n |-> b, cl |-> 0, of |-> ""]

\* memory_allocate: the new allocation's index is Len(H) + 1
alloc(H, elems) == Append(H, [st |-> "live", elems |-> elems])

\* value_free and its loop over the elements of an array.  m is the memory
\* so far: m.h the allocations, m.ub whether freed memory has been read or
\* freed again.
RECURSIVE value_free(_, _)
RECURSIVE FreeElements(_, _, _)
value_free(m, v) ==
    IF v.t \notin {"string", "array"} THEN m
    ELSE IF m.h[v.n].st = "freed" THEN [h |-> m.h, ub |-> TRUE]
    ELSE LET r == IF v.t = "array" THEN FreeElements(m, m.h[v.n].elems, 1) ELSE m
         IN [h |-> [r.h EXCEPT ![v.n].st = "freed"], ub |-> r.ub]

FreeElements(m, es, i) ==
    IF i > Len(es) THEN m
    ELSE FreeElements(value_free(m, es[i]), es, i + 1)

\* memcpy of a Value, with memory_strdup when it is a string: what
\* AST_IDENTIFIER, AST_INDEX, system.store, system.recall and
\* system.history.get make.  Gives the memory after it and the copy.
ShallowCopy(m, v) ==
    IF v.t = "string"
    THEN [m |-> [h |-> alloc(m.h, <<>>),
                 ub |-> m.ub \/ m.h[v.n].st = "freed"],
          v |-> Str(Len(m.h) + 1)]
    ELSE [m |-> m, v |-> v]

\* The allocations a step may still make
Room(k) == Len(heap) + k <= MaxBufs

\* AST_BLOCK frees the result of the statement before
AfterBlockFree == value_free([h |-> heap, ub |-> FALSE], val)

\* AST_IDENTIFIER for the name a in memory m
Identifier(m) ==
    LET bound == env_get(frames, current, Name("a"))
    IN IF bound = NoValue THEN [m |-> m, v |-> Null] ELSE ShallowCopy(m, bound)

IdentifierDiag ==
    IF env_get(frames, current, Name("a")) = NoValue
    THEN "Undefined variable" ELSE diag

HeapUnchanged == UNCHANGED <<jmp_buf, current_error, current, ntry, nevals,
                             thrownIn, parser, lexer, stdout>>

\* A step ends: when it has read or freed memory that was freed before, the
\* behaviour is undefined: the process dies (the allocator aborts, or a wild
\* pointer is followed), or it goes on with what the memory held.
Finish(m, v, F, cm, hist, d) ==
    \E dies \in (IF m.ub THEN BOOLEAN ELSE {FALSE}) :
        IF dies
        THEN Crashes /\ UNCHANGED <<heap, frames, calc_mem, history, diag>>
        ELSE /\ heap' = m.h
             /\ val' = v
             /\ frames' = F
             /\ calc_mem' = cm
             /\ history' = hist
             /\ diag' = d
             /\ UNCHANGED <<stack, mode>>

\* `&insert a = [1]`, `&insert a = [[1]]`, `&insert a = "s"`: AST_ARRAY /
\* AST_STRING, then env_declare, which frees the new Value when a is
\* declared already
HeapDeclare ==
    /\ AtStmt /\ Room(2)
    /\ \E lit \in {"[1]", "[[1]]", "s"} :
         LET m0 == AfterBlockFree
             n == Len(m0.h)
             h1 == IF lit = "[1]" THEN alloc(m0.h, <<Num(1)>>)
                   ELSE IF lit = "s" THEN alloc(m0.h, <<>>)
                   ELSE alloc(alloc(m0.h, <<Num(1)>>), <<Arr(n + 1)>>)
             value == IF lit = "[1]" THEN Arr(n + 1)
                      ELSE IF lit = "s" THEN Str(n + 1)
                      ELSE Arr(n + 2)
             m1 == [h |-> h1, ub |-> m0.ub]
             declared == IndexOf(frames[current].vars, Name("a")) # 0
         IN Finish(IF declared THEN value_free(m1, value) ELSE m1,
                   Null,
                   env_declare(frames, current, Name("a"), value, FALSE),
                   calc_mem, history,
                   env_declare_diag(frames, current, Name("a"), diag))
    /\ HeapUnchanged

\* The statement `a`: AST_IDENTIFIER
HeapIdentifier ==
    /\ AtStmt /\ Room(1)
    /\ LET r == Identifier(AfterBlockFree)
       IN Finish(r.m, r.v, frames, calc_mem, history, IdentifierDiag)
    /\ HeapUnchanged

\* The statement `a[0]`: AST_INDEX.  obj is the Value AST_IDENTIFIER gave;
\* the element is copied, then obj is freed.
HeapIndex ==
    /\ AtStmt /\ Room(1)
    /\ LET r == Identifier(AfterBlockFree)
           obj == r.v
           inRange == obj.t = "array" /\ Len(r.m.h[obj.n].elems) > 0
           m1 == IF obj.t = "array"
                 THEN [h |-> r.m.h, ub |-> r.m.ub \/ r.m.h[obj.n].st = "freed"]
                 ELSE r.m
           c == IF inRange THEN ShallowCopy(m1, m1.h[obj.n].elems[1])
                ELSE [m |-> m1, v |-> Null]
       IN Finish(value_free(c.m, obj), c.v, frames, calc_mem, history,
                 IdentifierDiag)
    /\ HeapUnchanged

\* The statement `system.len(a)`: the argument's Value is freed
HeapLen ==
    /\ AtStmt /\ Room(1)
    /\ LET r == Identifier(AfterBlockFree)
           len == IF r.v.t = "array" THEN Len(r.m.h[r.v.n].elems) ELSE 0
       IN Finish(value_free(r.m, r.v), Num(len), frames, calc_mem, history,
                 IdentifierDiag)
    /\ HeapUnchanged

\* The statement `system.store("m", a)`: a copy of the argument's Value goes
\* to calc_mem by env_set, which frees the Value stored before; then the
\* argument's Value is freed
HeapStore ==
    /\ AtStmt /\ Room(2)
    /\ LET r == Identifier(AfterBlockFree)
           c == ShallowCopy(r.m, r.v)
           old == env_get(calc_mem, 1, Name("m"))
           m1 == IF old = NoValue THEN c.m ELSE value_free(c.m, old)
       IN Finish(value_free(m1, r.v), Null, frames,
                 env_set(calc_mem, 1, Name("m"), c.v), history, IdentifierDiag)
    /\ HeapUnchanged

\* The statement `system.recall("m")`
HeapRecall ==
    /\ AtStmt /\ Room(1)
    /\ LET stored == env_get(calc_mem, 1, Name("m"))
           c == IF stored = NoValue THEN [m |-> AfterBlockFree, v |-> Null]
                ELSE ShallowCopy(AfterBlockFree, stored)
       IN Finish(c.m, c.v, frames, calc_mem, history, diag)
    /\ HeapUnchanged

\* The statement `system.history.add(a)`: the argument's Value itself is kept
HeapHistoryAdd ==
    /\ AtStmt /\ Room(1)
    /\ Len(history) < MaxHistory
    /\ LET r == Identifier(AfterBlockFree)
       IN Finish(r.m, Null, frames, calc_mem, Append(history, r.v),
                 IdentifierDiag)
    /\ HeapUnchanged

\* The copies system.history.get puts in its array, from entry i on
RECURSIVE HistoryCopies(_, _, _)
HistoryCopies(m, i, acc) ==
    IF i > Len(history) THEN [m |-> m, vs |-> acc]
    ELSE LET c == ShallowCopy(m, history[i])
         IN HistoryCopies(c.m, i + 1, Append(acc, c.v))

\* The statement `system.history.get()`
HeapHistoryGet ==
    /\ AtStmt /\ Room(1 + Len(history))
    /\ LET r == HistoryCopies(AfterBlockFree, 1, <<>>)
       IN Finish([h |-> alloc(r.m.h, r.vs), ub |-> r.m.ub],
                 Arr(Len(r.m.h) + 1), frames, calc_mem, history, diag)
    /\ HeapUnchanged

NextHeap ==
    \/ InterpreterEval
    \/ HeapDeclare
    \/ HeapIdentifier
    \/ HeapIndex
    \/ HeapLen
    \/ HeapStore
    \/ HeapRecall
    \/ HeapHistoryAdd
    \/ HeapHistoryGet
    \/ BlockDone

SpecHeap == Init /\ [][NextHeap]_vars

\* The allocations reachable from the Values vs
RECURSIVE Reach(_, _)
Reach(H, v) ==
    IF v.t = "string" THEN {v.n}
    ELSE IF v.t = "array"
    THEN {v.n} \cup UNION {Reach(H, H[v.n].elems[i]) : i \in 1..Len(H[v.n].elems)}
    ELSE {}

\* The Values bound in the frames, in the calculator memory and in the history
BoundValues ==
    {frames[e].vars[i].value :
        <<e, i>> \in {p \in (1..Len(frames)) \X (1..4) :
                        frames[p[1]].alive /\ p[2] <= Len(frames[p[1]].vars)}}
    \cup {calc_mem[1].vars[i].value : i \in 1..Len(calc_mem[1].vars)}
    \cup {history[i] : i \in 1..Len(history)}

\* C8: the storage reachable from a binding of a frame, of the calculator
\* memory or of the history is never freed by freeing a Value that eval_node
\* returned: every allocation reachable from a bound Value is live.
C8_BoundStorageLive ==
    \A v \in BoundValues : \A b \in Reach(heap, v) : heap[b].st = "live"

\* ---------------------------------------------------------------- claim C11
\* C11: an error thrown while no try body is running is fatal: it never
\* arrives at the catch site of any try statement, so no catch or finally
\* body runs for it.
C11_UncaughtIsFatal ==
    mode = "unwind" => thrownIn # 0

\* ---------------------------------------------------------------- parameters and defaults
\* The function Value of `function h(x, y = x) { ... }`: n tells its AST node
\* from that of `function f(void)` (n = 0)
FunXY(closure) == [t |-> "function", n |-> 1, cl |-> closure, of |-> ""]

\* AST_FUNCTION for `function h(x, y = x) { ... }`
EvalFunctionXY ==
    /\ AtStmt
    /\ frames' = env_set(frames, current, Name("h"), FunXY(current))
    /\ diag' = env_set_diag(frames, current, Name("h"), FunXY(current), diag)
    /\ val' = Null
    /\ UNCHANGED <<stack, mode, current>>
    /\ EnvUnchanged

\* AST_CALL of h with argc arguments, each the literal 1.  The loop over the
\* parameters runs before interp->current is swapped: an argument and a
\* default are evaluated by eval_node with interp->current still the
\* caller's frame, and bound by env_set in func_env.
EvalCallArgs(argc) ==
    /\ AtStmt /\ CanPush
    /\ Len(frames) < MaxEnvFrames
    /\ \E func \in Lookup(frames, current, Name("h")) :
       \E defv \in Lookup(frames, current, Name("x")) :
          IF func = Crash \/ (argc < 2 /\ defv = Crash)
          THEN Crashes /\ UNCHANGED <<frames, current, diag>>
          ELSE /\ func.t = "function" /\ func.n = 1
               /\ LET fe == Len(frames) + 1
                      x == IF argc >= 1 THEN Num(1) ELSE Null
                      y == IF argc >= 2 THEN Num(1)
                           ELSE IF defv = NoValue THEN Null ELSE defv
                      F1 == env_create(frames, func.cl)
                      F2 == env_set(F1, fe, Name("x"), x)
                  IN /\ frames' = env_set(F2, fe, Name("y"), y)
                     /\ stack' = Append(stack,
                            Act("call", 0, "body", FALSE, FALSE, current, fe))
                     /\ current' = fe
               /\ diag' = IF argc < 2 /\ defv = NoValue
                          THEN "Undefined variable" ELSE diag
               /\ val' = Null
               /\ mode' = mode
    /\ EnvUnchanged

\* `h()`, `h(1)`, `h(1, 1)`, `h(1, 1, 1)`
EvalCallXY == \E argc \in 0..MaxArgs : EvalCallArgs(argc)

NextArgs ==
    \/ InterpreterEval
    \/ EvalDeclare
    \/ EvalAssign
    \/ EvalFunctionXY
    \/ EvalCallXY
    \/ EvalReturn
    \/ CallDone
    \/ BlockDone

SpecArgs == Init /\ [][NextArgs]_vars

\* C12: in a call of h(x, y = x) a missing argument of y is replaced by the
\* default evaluated in the callee's new frame, where x is the first
\* parameter: y is bound to what x is bound to in that frame; a missing
\* argument of x, which has no default, binds x to null; arguments beyond the
\* second are ignored.
C12_DefaultInCalleeFrame ==
    [][\A argc \in 0..MaxArgs :
          (EvalCallArgs(argc) /\ mode' # "crash") =>
              LET fe == Len(frames')
                  vs == frames'[fe].vars
              IN /\ Len(vs) = 2
                 /\ env_get(frames', fe, Name("x")) =
                        (IF argc >= 1 THEN Num(1) ELSE Null)
                 /\ argc < 2 => env_get(frames', fe, Name("y")) =
                                    env_get(frames', fe, Name("x"))
      ]_vars

\* ---------------------------------------------------------------- declarations with a type annotation
Bool(b) == [t |-> "boolean", n |-> b, cl |-> 0, of |-> ""]

\* env_annotate: the recorded type of name in frame e becomes type
env_annotate(F, e, name, type) ==
    LET i == IndexOf(F[e].vars, name)
    IN IF i = 0 THEN F ELSE [F EXCEPT ![e].vars[i].type = type]

\* AST_ASSIGN with TOKEN_INSERT / TOKEN_CONST and a type annotation:
\* `&insert x: T = v` / `const x: T = v`.  A value of another type than T is
\* refused before env_declare; otherwise env_declare, then env_annotate.
EvalDeclareTyped ==
    /\ AtStmt
    /\ \E is_const \in BOOLEAN, T \in {"number", "boolean"},
          value \in {Num(1), Bool(1)} :
          IF type_name(value) # T /\ T # "unknown"
          THEN /\ diag' = "Type mismatch"
               /\ frames' = frames
          ELSE /\ diag' = env_declare_diag(frames, current, Name("x"), diag)
               /\ frames' = env_annotate(
                      env_declare(frames, current, Name("x"), value, is_const),
                      current, Name("x"), T)
    /\ val' = Null
    /\ UNCHANGED <<stack, mode, current>>
    /\ EnvUnchanged

NextDecl ==
    \/ InterpreterEval
    \/ EvalDeclare
    \/ EvalDeclareTyped
    \/ EvalAssign
    \/ EvalFunction
    \/ EvalCall
    \/ CallDone
    \/ BlockDone

SpecDecl == Init /\ [][NextDecl]_vars

\* C13: a declaration of x in a frame that binds x already reports the
\* already-declared diagnostic and changes nothing: the frame keeps its one
\* binding of x with the value, the const flag and the recorded type it had.
C13_RedeclareIsNoOp ==
    [][((EvalDeclare \/ EvalDeclareTyped)
            /\ IndexOf(frames[current].vars, Name("x")) # 0) =>
          /\ diag' = "Variable already declared"
          /\ frames' = frames
      ]_vars

\* ---------------------------------------------------------------- compound assignment, symbol and word forms
\* The operator tags: TOKEN_PLUS_ASSIGN .. TOKEN_MOD_ASSIGN for `x += e` ..
\* `x %= e`, TOKEN_ADD .. TOKEN_MOD for `add x = e` .. `mod x = e`
SymbolOps == {"+=", "-=", "*=", "/=", "%="}
WordOps == {"add", "sub", "mul", "div", "mod"}

\* The symbol form that a word form stands for
SymbolOf(w) ==
    CASE w = "add" -> "+=" [] w = "sub" -> "-=" [] w = "mul" -> "*="
      [] w = "div" -> "/=" [] w = "mod" -> "%="

\* old op value on numbers, for the operands whose result is a whole number
\* (a division that is exact, a modulus by a non-zero number)
Exact(op, a, b) == (op \in {"/=", "%="} => b # 0) /\ (op = "/=" => a % b = 0)

Combine(op, a, b) ==
    CASE op = "+=" -> a + b [] op = "-=" -> a - b [] op = "*=" -> a * b
      [] op = "/=" -> a \div b [] op = "%=" -> a % b

\* The Value that AST_ASSIGN hands to env_set for operator tag op, `value`
\* being the evaluated right-hand side and old what env_get gave for x: the
\* five symbol tags have a branch that combines; any other tag that reaches
\* the end of the case (the word tags) has none, and `value` is stored as is
Assigned(op, old, value) ==
    IF op \in SymbolOps /\ old.t = "number" /\ value.t = "number"
    THEN Num(Combine(op, old.n, value.n))
    ELSE value

\* AST_ASSIGN for `x op= e` / `op x = e` with the literal e
EvalOpAssign(op, e) ==
    /\ AtStmt
    /\ \E old \in Lookup(frames, current, Name("x")) :
          IF old = Crash
          THEN Crashes /\ UNCHANGED <<frames, diag>>
          ELSE LET value == Assigned(op, old, Num(e))
               IN /\ old.t = "number" => Exact(op, old.n, e)
                  /\ value.n \in 0..MaxNum
                  /\ diag' = env_set_diag(frames, current, Name("x"), value, diag)
                  /\ frames' = env_set(frames, current, Name("x"), value)
                  /\ val' = Null
                  /\ UNCHANGED <<stack, mode>>
    /\ UNCHANGED current
    /\ EnvUnchanged

EvalSymbolAssign == \E op \in SymbolOps, e \in 0..MaxNum : EvalOpAssign(op, e)
EvalWordAssign == \E op \in WordOps, e \in 0..MaxNum : EvalOpAssign(op, e)

NextWord ==
    \/ InterpreterEval
    \/ EvalDeclare
    \/ EvalSymbolAssign
    \/ EvalWordAssign
    \/ EvalFunction
    \/ EvalCall
    \/ CallDone
    \/ BlockDone

SpecWord == Init /\ [][NextWord]_vars

\* C14: running a word form on a numeric x leaves x bound to the value that
\* running the corresponding symbol form in the same state leaves.
C14_WordFormIsCompound ==
    [][\A w \in WordOps, e \in 0..MaxNum :
          LET old == env_get(frames, current, Name("x"))
              symbol == env_set(frames, current, Name("x"),
                                Assigned(SymbolOf(w), old, Num(e)))
          IN (EvalOpAssign(w, e) /\ old.t = "number"
                 /\ Exact(SymbolOf(w), old.n, e)) =>
                env_get(frames', current, Name("x")) =
                    env_get(symbol, current, Name("x"))
      ]_vars

\* ---------------------------------------------------------------- match
\* The cases a match statement of the model may carry
MaxCases == 2

\* The literals a scrutinee or a case pattern may be
Literals == {Null, Num(0), Num(1), Bool(0), Bool(1)}

\* values_equal(a, b): the comparison AST_MATCH uses. Strings are left out of
\* Literals; arrays, maps and functions compare the two Value pointers, which
\* are never the same Value for a scrutinee and a pattern
values_equal(a, b) ==
    IF a.t # b.t THEN FALSE
    ELSE CASE a.t = "number" -> a.n = b.n
           [] a.t = "boolean" -> a.n = b.n
           [] a.t = "null" -> TRUE
           [] OTHER -> FALSE

\* TOKEN_EQ of eval_binary_op: the comparison the == operator uses
TokenEq(left, right) ==
    IF left.t = "number" /\ right.t = "number" THEN left.n = right.n
    ELSE IF left.t = "boolean" /\ right.t = "boolean" THEN left.n = right.n
    ELSE FALSE

\* The first of the case indices in matching, 0 when there is none: the
\* loop over the cases stops at the first pattern that compares equal
FirstCase(matching) ==
    IF matching = {} THEN 0
    ELSE CHOOSE i \in matching : \A j \in matching : i <= j

\* AST_MATCH on  match (v) { case cases[1]: 1  case cases[2]: 2  default: 0 }
\* the body of case i is the number literal i, the default body, when there
\* is one, the number literal 0
EvalMatchOf(v, cases, has_default) ==
    /\ AtStmt
    /\ LET i == FirstCase({c \in 1..Len(cases) : values_equal(v, cases[c])})
       IN val' = IF i # 0 THEN Num(i)
                 ELSE IF has_default THEN Num(0)
                 ELSE Null
    /\ UNCHANGED <<stack, mode, jmp_buf, current_error, current, frames, ntry,
                   nevals, thrownIn>>
    /\ UNCHANGED <<diag, heap, calc_mem, history, parser, lexer, stdout>>

Patterns == UNION {[1..k -> Literals] : k \in 0..MaxCases}

EvalMatch ==
    \E v \in Literals, cases \in Patterns, has_default \in BOOLEAN :
        EvalMatchOf(v, cases, has_default)

NextMatch ==
    \/ InterpreterEval
    \/ EvalMatch
    \/ EvalDeclare
    \/ EvalFunction
    \/ EvalCall
    \/ CallDone
    \/ BlockDone

SpecMatch == Init /\ [][NextMatch]_vars

\* C15: a match statement runs the body of the first case whose pattern is
\* equal to the scrutinee under the rule of the == operator, and no other;
\* with no such case it runs the default body, and is null without one
C15_MatchUsesEqRule ==
    [][\A v \in Literals, cases \in Patterns, has_default \in BOOLEAN :
          EvalMatchOf(v, cases, has_default) =>
             LET i == FirstCase({c \in 1..Len(cases) : TokenEq(v, cases[c])})
             IN val' = IF i # 0 THEN Num(i)
                       ELSE IF has_default THEN Num(0)
                       ELSE Null]_vars

\* ---------------------------------------------------------------- includes
\* The statements a main script of the model may have
MaxStatements == 3
\* Parser instances the C stack holds before it overflows
MaxNest == 4

\* A token in statement position: an #include or #involve directive with its
\* path as value, or the first token of any other statement
IncludeToken(path) == [k |-> "include", path |-> path]
OtherToken == [k |-> "other", path |-> ""]

\* The files there are to open, each the tokens its statements start with
FileSystem ==
    [path \in {"p", "a", "src/q", "self"} |->
        CASE path = "p" -> <<OtherToken>>
          [] path = "a" -> <<IncludeToken("p"), OtherToken>>
          [] path = "src/q" -> <<OtherToken, OtherToken>>
          [] path = "self" -> <<OtherToken, IncludeToken("self")>>]

\* The paths a directive of the model may name; "nope" is no file
Paths == {"p", "a", "q", "src/q", "self", "nope"}

\* fopen(path, "r") succeeds
fopen(path) == path \in DOMAIN FileSystem

\* full: the path as written when it opens, otherwise with the prefix src/
FullPath(path) == IF fopen(path) THEN path ELSE "src/" \o path

\* AST nodes: the statement at `at` of `file`, a null node, a block
StatementNode(file, at) == [k |-> "stmt", file |-> file, at |-> at, body |-> <<>>]
ast_create_null == [k |-> "null", file |-> "", at |-> 0, body |-> <<>>]
ast_create_block(file, statements) ==
    [k |-> "block", file |-> file, at |-> 0, body |-> statements]

\* parser_create on the lexer of a file: an empty include history.
\* statements is the array parser_parse fills, pos the current token
parser_create(file, tokens) ==
    [file |-> file, tokens |-> tokens, pos |-> 1, include_paths |-> <<>>,
     statements |-> <<>>]

\* An include history that is never consulted
parser_has_included_never(p, path) == FALSE

\* parser_has_included(parser, path)
parser_has_included(p, path) ==
    \E i \in 1..Len(p.include_paths) : p.include_paths[i] = path

\* parser_add_include(parser, path)
parser_add_include(p, path) ==
    [p EXCEPT !.include_paths = Append(@, path)]

\* statements[count++] = node, the parser past the statement
AddStatement(p, node) ==
    [p EXCEPT !.statements = Append(@, node), !.pos = @ + 1]

Parsing == parser # <<>> /\ mode = "idle" /\ nevals = 0
TopParser == parser[Len(parser)]
AtToken == Parsing /\ TopParser.pos <= Len(TopParser.tokens)
SetTopParser(p) == [parser EXCEPT ![Len(parser)] = p]

ParseUnchanged ==
    UNCHANGED <<jmp_buf, current_error, current, frames, ntry, nevals,
                thrownIn, heap, calc_mem, history, lexer>>

\* The scripts a run may be given
Sources ==
    UNION {[1..n -> {OtherToken} \cup {IncludeToken(path) : path \in Paths}] :
             n \in 1..MaxStatements}

\* main: lexer_create and parser_create on the script
ParserCreate ==
    /\ parser = <<>> /\ mode = "idle" /\ nevals = 0 /\ stdout = <<>>
    /\ \E tokens \in Sources : parser' = <<parser_create("main", tokens)>>
    /\ UNCHANGED <<stack, mode, val, diag, stdout>>
    /\ ParseUnchanged

\* parse_statement on a statement that is no directive
ParseOther ==
    /\ AtToken
    /\ TopParser.tokens[TopParser.pos].k = "other"
    /\ parser' = SetTopParser(
          AddStatement(TopParser, StatementNode(TopParser.file, TopParser.pos)))
    /\ UNCHANGED <<stack, mode, val, diag, stdout>>
    /\ ParseUnchanged

\* parse_statement on TOKEN_INCLUDE or TOKEN_INVOLVE, up to the parser_parse
\* of the included file, which runs as the Parser instance pushed here
ParseInclude ==
    /\ AtToken
    /\ TopParser.tokens[TopParser.pos].k = "include"
    /\ LET full == FullPath(TopParser.tokens[TopParser.pos].path)
           added == parser_add_include(TopParser, full)
       IN IF parser_has_included(TopParser, full)
          THEN /\ parser' = SetTopParser(AddStatement(TopParser, ast_create_null))
               /\ UNCHANGED <<stack, mode, val, diag>>
          ELSE IF ~fopen(full)
          THEN /\ parser' = SetTopParser(AddStatement(added, ast_create_null))
               /\ diag' = "Include error: could not open"
               /\ UNCHANGED <<stack, mode, val>>
          ELSE IF Len(parser) = MaxNest
          THEN /\ Crashes
               /\ UNCHANGED <<parser, lexer, diag>>
          ELSE /\ parser' = Append(SetTopParser(added),
                                   parser_create(full, FileSystem[full]))
               /\ UNCHANGED <<stack, mode, val, diag>>
    /\ UNCHANGED stdout
    /\ ParseUnchanged

\* parser_parse of an included file reaches TOKEN_EOF: parse_statement of the
\* including parser returns the block as the directive's node
IncludeDone ==
    /\ Parsing /\ Len(parser) > 1
    /\ TopParser.pos > Len(TopParser.tokens)
    /\ LET inc_ast == ast_create_block(TopParser.file, TopParser.statements)
           up == parser[Len(parser) - 1]
       IN parser' = [i \in 1..(Len(parser) - 1) |->
                        IF i = Len(parser) - 1 THEN AddStatement(up, inc_ast)
                        ELSE parser[i]]
    /\ UNCHANGED <<stack, mode, val, diag, stdout>>
    /\ ParseUnchanged

\* The statements of a block in the order a run executes them
RECURSIVE Statements(_)
Flatten(nodes) ==
    LET RECURSIVE Cat(_)
        Cat(i) == IF i > Len(nodes) THEN <<>>
                  ELSE Statements(nodes[i]) \o Cat(i + 1)
    IN Cat(1)
Statements(node) ==
    CASE node.k = "stmt" -> <<node>>
      [] node.k = "null" -> <<>>
      [] node.k = "block" -> Flatten(node.body)

\* main: parser_parse of the script returns and the program runs; each
\* statement writes a line that tells its file and place
RunProgram ==
    /\ Parsing /\ Len(parser) = 1 /\ stdout = <<>>
    /\ TopParser.pos > Len(TopParser.tokens)
    /\ stdout' = Statements(ast_create_block("main", TopParser.statements))
    /\ UNCHANGED <<stack, mode, val, diag, parser, lexer>>
    /\ ParseUnchanged

NextParse ==
    \/ ParserCreate
    \/ ParseOther
    \/ ParseInclude
    \/ IncludeDone
    \/ RunProgram

SpecParse == Init /\ [][NextParse]_vars

\* The directives of parser instance p before token k that name the file full
EarlierSame(p, k, full) ==
    {j \in 1..(k - 1) : /\ p.tokens[j].k = "include"
                        /\ FullPath(p.tokens[j].path) = full}

\* C16: in every Parser instance, the node of a directive is the block of
\* the named file when the file opens and no earlier directive of that
\* instance named it, and a null node otherwise: a file a parser instance is
\* told to include twice is expanded by it exactly once
C16_IncludedOncePerParser ==
    \A i \in 1..Len(parser) :
        LET p == parser[i]
        IN \A k \in 1..Len(p.statements) :
              p.tokens[k].k = "include" =>
                 LET full == FullPath(p.tokens[k].path)
                 IN IF fopen(full) /\ EarlierSame(p, k, full) = {}
                    THEN /\ p.statements[k].k = "block"
                         /\ p.statements[k].file = full
                    ELSE p.statements[k] = ast_create_null

\* A parser instance has expanded a file at one directive and made a null
\* node of a later directive that names the same file
C16_SecondDirectiveSeen ==
    \E i \in 1..Len(parser) :
        LET p == parser[i]
        IN \E k \in 1..Len(p.statements) :
              /\ p.tokens[k].k = "include"
              /\ p.statements[k] = ast_create_null
              /\ \E j \in EarlierSame(p, k, FullPath(p.tokens[k].path)) :
                    p.statements[j].k = "block"

\* ---------------------------------------------------------------- system.throw
\* The argument expressions of the model's system.throw: a string literal or
\* the number literal 1
StringArg(s) == [t |-> "string", s |-> s]
NumberArg == [t |-> "number", s |-> ""]
NameArgs == {StringArg("E"), StringArg("F"), NumberArg}
MessageArgs == {StringArg("m"), StringArg(""), NumberArg}

\* What freed memory holds once the allocator has written into it
Garbled == "?"

\* An error Value: code, and the allocation of its name; the allocation of
\* its message is the next one
ErrorValue(b, code) == [t |-> "error", n |-> code, cl |-> b, of |-> ""]

\* eval_node on an argument and value_free of the Value it gave: a string
\* literal leaves one freed allocation behind
ArgFreed(H, arg) ==
    IF arg.t = "string" THEN Append(H, [st |-> "freed", elems |-> <<arg.s>>])
    ELSE H

\* What memory_strdup can read through a pointer kept from an argument:
\* the static default when the argument was no string, otherwise the bytes
\* of a freed allocation, which are the string still or are not
Readable(arg, default) ==
    IF arg.t = "string" THEN {arg.s, Garbled} ELSE {default}

\* value_print of a VAL_ERROR in memory H
value_print(H, v) ==
    "<" \o H[v.cl].elems[1] \o ": " \o H[v.cl + 1].elems[1] \o ">"

\* system.throw(name, msg, code): the three arguments are evaluated and
\* freed in turn, value_create_error copies name and message, throw_error
\* stores the error and jumps.  The error Value in flight is kept in val.
SystemThrowOf(name, msg, code) ==
    /\ AtStmt /\ Room(4)
    /\ LET h2 == ArgFreed(ArgFreed(heap, name), msg)
           ub == name.t = "string" \/ msg.t = "string"
       IN \E dies \in (IF ub THEN BOOLEAN ELSE {FALSE}) :
             IF dies
             THEN Crashes /\ UNCHANGED <<heap, current_error, thrownIn>>
             ELSE \E nm \in Readable(name, "Error"), ms \in Readable(msg, "") :
                     /\ heap' = alloc(alloc(h2, <<nm>>), <<ms>>)
                     /\ current_error' = "error"
                     /\ thrownIn' = NearestTry(stack, Len(stack))
                     /\ \E out \in longjmp(stack, jmp_buf) :
                           /\ stack' = out[1]
                           /\ mode' = out[2]
                           /\ val' = IF out[2] = "crash" THEN Null
                                     ELSE ErrorValue(Len(h2) + 1, code)
    /\ UNCHANGED <<jmp_buf, current, frames, ntry, nevals>>
    /\ UNCHANGED <<diag, calc_mem, history, parser, lexer, stdout>>

SystemThrow ==
    \E name \in NameArgs, msg \in MessageArgs, code \in 0..MaxNum :
        SystemThrowOf(name, msg, code)

\* AST_TRY_CATCH, setjmp returned non-zero, with the error Value at hand:
\* `catch (e)` binds it to e in interp->current
CatchError ==
    /\ mode = "unwind"
    /\ current_error' = NULL
    /\ thrownIn' = 0
    /\ IF Top.hc /\ current_error # NULL
       THEN /\ frames' = env_set(frames, current, Name("e"), val)
            /\ stack' = SetTop([Top EXCEPT !.ph = "catch"])
            /\ val' = Null
            /\ mode' = "blk"
       ELSE /\ AfterTryOrCatch(Top, Null)
            /\ frames' = frames
    /\ UNCHANGED <<jmp_buf, current, ntry, nevals>>
    /\ UNCHANGED <<diag, heap, calc_mem, history, parser, lexer, stdout>>

NextThrow ==
    \/ InterpreterEval
    \/ EvalLiteral
    \/ EvalTry
    \/ TryBodyDone
    \/ FinallyDone
    \/ SystemThrow
    \/ CatchError
    \/ BlockDone

SpecThrow == Init /\ [][NextThrow]_vars

\* C17: the error system.throw("n", "m", c) throws displays as <n: m> and
\* has the code c: its name and message are the strings of the arguments
C17_ErrorCarriesArguments ==
    [][\A name \in NameArgs, msg \in MessageArgs, code \in 0..MaxNum :
          (/\ SystemThrowOf(name, msg, code)
           /\ name.t = "string" /\ msg.t = "string"
           /\ mode' = "unwind")
          => /\ value_print(heap', val') = "<" \o name.s \o ": " \o msg.s \o ">"
             /\ val'.n = code]_vars

\* ---------------------------------------------------------------- namespaces
\* Frames of the runs with namespaces: the global frame and two more, each
\* a namespace frame or a call frame
MaxNsFrames == 3

EvalNamespaceNs == EvalNamespaceOf(MaxNsFrames)

\* the statement `N.f()`
EvalCallQualified == EvalCallOf(Qualified("N", Name("f")), <<>>, MaxNsFrames)

NextNs ==
    \/ InterpreterEval
    \/ EvalDeclare
    \/ EvalAssign
    \/ EvalFunction
    \/ EvalNamespaceNs
    \/ NamespaceDone
    \/ EvalCallQualified
    \/ CallDone
    \/ BlockDone

SpecNs == Init /\ [][NextNs]_vars

\* The binding of name in frame e itself
BindingIn(F, e, name) == F[e].vars[IndexOf(F[e].vars, name)]
BoundIn(F, e, name) == IndexOf(F[e].vars, name) # 0

\* A call of N.f enters a frame in which every member of the namespace that
\* defined f reads, unqualified, as it is bound in the namespace frame
MembersResolveInCall ==
    (EvalCallQualified /\ mode' # "crash") =>
       LET ns == frames'[current'].parent
       IN \A i \in 1..Len(frames[ns].vars) :
             env_get(frames', current', frames[ns].vars[i].name)
                = frames[ns].vars[i].value

\* C18 as stated: when a namespace body has completed, every binding of the
\* namespace frame is bound in the parent frame under N.<name> with an equal
\* value and the same const flag, and a function of the namespace called as
\* N.f resolves the namespace's members
C18_EveryBindingRepublished ==
    [][/\ NamespaceDone =>
             \A i \in 1..Len(frames[Top.fenv].vars) :
                LET b == frames[Top.fenv].vars[i]
                    q == Qualified("N", b.name)
                IN /\ BoundIn(frames', Top.saved, q)
                   /\ BindingIn(frames', Top.saved, q).value = b.value
                   /\ BindingIn(frames', Top.saved, q).is_const = b.is_const
       /\ MembersResolveInCall]_vars

\* C18, amended: when a namespace body has completed, every binding of the
\* namespace frame whose qualified name N.<name> the parent frame has not
\* declared yet is bound there under that name with an equal value and the
\* same const flag; for a qualified name the parent frame has declared
\* already the diagnostic is written and the parent's binding stays as it
\* is; and a function of the namespace called as N.f resolves the
\* namespace's members
C18_NewBindingsRepublished ==
    [][/\ NamespaceDone =>
             \A i \in 1..Len(frames[Top.fenv].vars) :
                LET b == frames[Top.fenv].vars[i]
                    q == Qualified("N", b.name)
                IN /\ BoundIn(frames', Top.saved, q)
                   /\ IF BoundIn(frames, Top.saved, q)
                      THEN /\ BindingIn(frames', Top.saved, q)
                                 = BindingIn(frames, Top.saved, q)
                           /\ diag' = "Variable already declared"
                      ELSE /\ BindingIn(frames', Top.saved, q).value = b.value
                           /\ BindingIn(frames', Top.saved, q).is_const = b.is_const
       /\ MembersResolveInCall]_vars

\* A call of N.f is running whose namespace has a const member x, which the
\* frame around the namespace holds as the const N.x, and x reads in the
\* call as the namespace binds it
C18_ConstMemberSeenInCall ==
    /\ mode = "blk" /\ stack # <<>> /\ Top.k = "call"
    /\ LET ns == frames[current].parent
       IN /\ ns # 0 /\ frames[ns].parent # 0
          /\ BoundIn(frames, ns, Name("x"))
          /\ BindingIn(frames, ns, Name("x")).is_const
          /\ BoundIn(frames, frames[ns].parent, Qualified("N", Name("x")))
          /\ BindingIn(frames, frames[ns].parent, Qualified("N", Name("x"))).is_const
          /\ env_get(frames, current, Name("x"))
                = BindingIn(frames, ns, Name("x")).value

\* ---------------------------------------------------------------- enums
\* Members of the model's enum
MaxMembers == 2

\* A member as written: without a value, `= n` with a number literal, or
\* `= -n`, which the parser reads as a unary operator applied to n
Member(form, n) == [form |-> form, n |-> n]
Members ==
    {Member("none", 0)} \cup
    {Member(form, n) : form \in {"number", "unary"}, n \in 0..MaxNum}
MemberLists == UNION {[1..k -> Members] : k \in 1..MaxMembers}
MemberName(i) == IF i = 1 THEN "A" ELSE IF i = 2 THEN "B" ELSE "C"

\* parse_enum: values[i] for the members ms; next_val is the value a member
\* without `=` gets.  An explicit value counts when its expression is an
\* AST_NUMBER node, any other expression leaves the value at next_val
RECURSIVE parse_enum(_, _, _)
parse_enum(ms, i, next_val) ==
    IF i > Len(ms) THEN <<>>
    ELSE LET value == IF ms[i].form = "number" THEN ms[i].n ELSE next_val
         IN <<value>> \o parse_enum(ms, i + 1, value + 1)

\* AST_ENUM: every member declared const in interp->current as E.<member>
RECURSIVE DeclareMembers(_, _, _, _)
DeclareMembers(F, e, values, i) ==
    IF i > Len(values) THEN F
    ELSE DeclareMembers(
            env_declare(F, e, Qualified("E", Name(MemberName(i))),
                        Num(values[i]), TRUE),
            e, values, i + 1)

RECURSIVE DeclareMembersDiag(_, _, _, _, _)
DeclareMembersDiag(F, e, values, i, d) ==
    IF i > Len(values) THEN d
    ELSE DeclareMembersDiag(
            env_declare(F, e, Qualified("E", Name(MemberName(i))),
                        Num(values[i]), TRUE),
            e, values, i + 1,
            env_declare_diag(F, e, Qualified("E", Name(MemberName(i))), d))

\* the statement `enum E { A ..., B ... }`
EvalEnumOf(ms) ==
    /\ AtStmt
    /\ frames' = DeclareMembers(frames, current, parse_enum(ms, 1, 0), 1)
    /\ diag' = DeclareMembersDiag(frames, current, parse_enum(ms, 1, 0), 1, diag)
    /\ val' = Null
    /\ UNCHANGED <<stack, mode, current>>
    /\ EnvUnchanged

EvalEnum == \E ms \in MemberLists : EvalEnumOf(ms)

\* AST_ASSIGN with TOKEN_ASSIGN on a member: `E.A = 1`
EvalAssignMember ==
    /\ AtStmt
    /\ \E has \in Lookup(frames, current, Qualified("E", Name("A"))) :
          IF has = Crash
          THEN Crashes /\ UNCHANGED <<frames, diag>>
          ELSE /\ IF has = NoValue
                  THEN /\ diag' = "Assignment to undeclared variable"
                       /\ frames' = frames
                  ELSE /\ diag' = env_set_diag(frames, current,
                                     Qualified("E", Name("A")), Num(1), diag)
                       /\ frames' = env_set(frames, current,
                                     Qualified("E", Name("A")), Num(1))
               /\ val' = Null
               /\ UNCHANGED <<stack, mode>>
    /\ UNCHANGED current
    /\ EnvUnchanged

NextEnum ==
    \/ InterpreterEval
    \/ EvalEnum
    \/ EvalAssignMember
    \/ EvalFunction
    \/ EvalCall
    \/ CallDone
    \/ BlockDone

SpecEnum == Init /\ [][NextEnum]_vars

\* The value the claim gives member i: the one written, otherwise the
\* value of the member before plus one, 0 for the first
RECURSIVE Written(_, _)
Written(ms, i) ==
    IF ms[i].form = "number" THEN ms[i].n
    ELSE IF ms[i].form = "unary" THEN 0 - ms[i].n
    ELSE IF i = 1 THEN 0
    ELSE Written(ms, i - 1) + 1

\* C19: an enum statement in a frame that has none of its members yet binds
\* every member as a const to the value written for it, or to the value of
\* the member before plus one; and an assignment to a member leaves what
\* the member reads as unchanged
C19_EnumValuesConst ==
    [][/\ \A ms \in MemberLists :
             (/\ EvalEnumOf(ms)
              /\ \A i \in 1..Len(ms) :
                    IndexOf(frames[current].vars,
                            Qualified("E", Name(MemberName(i)))) = 0)
             => \A i \in 1..Len(ms) :
                   LET q == Qualified("E", Name(MemberName(i)))
                       at == IndexOf(frames'[current].vars, q)
                   IN /\ at # 0
                      /\ frames'[current].vars[at].value = Num(Written(ms, i))
                      /\ frames'[current].vars[at].is_const
       /\ (EvalAssignMember /\ mode' # "crash")
             => env_get(frames', current, Qualified("E", Name("A")))
                   = env_get(frames, current, Qualified("E", Name("A")))]_vars

\* ---------------------------------------------------------------- evaluation order
\* Lines a run may write to stdout
MaxLines == 4

\* The binary operators of the model; an activation's id is the index of
\* its operator here
BinaryOps == <<"+", "&&", "||">>

\* value_is_truthy
value_is_truthy(v) ==
    CASE v.t = "null" -> FALSE
      [] v.t = "boolean" -> v.n # 0
      [] v.t = "number" -> v.n # 0
      [] OTHER -> TRUE

\* An operator that leaves its right operand alone once the left decides
ShortCircuit(op, left) ==
    CASE op = "&&" -> value_is_truthy(left)
      [] op = "||" -> ~value_is_truthy(left)
      [] OTHER -> TRUE

\* eval_binary_op evaluates the right operand whatever the operator and the
\* left operand are
WantsRight(op, left) == TRUE

\* An operand or argument is being evaluated, no statement
InExpression == stack # <<>> /\ Top.k \in {"binop", "args"}
AtStatement == AtStmt /\ ~InExpression

\* Operands and arguments are calls p(i) of  function p(n) { system.output(n);
\* return ...; }  with i the place of the operand in its expression: p(i)
\* writes the line i and gives a number
Operand(i, v) ==
    /\ stdout' = Append(stdout, i)
    /\ stack' = SetTop([Top EXCEPT !.args = Append(@, v)])

\* eval_binary_op is entered on  p(1) op p(2)
EvalBinaryOp ==
    /\ AtStatement /\ CanPush
    /\ Len(stdout) + 2 <= MaxLines
    /\ \E id \in 1..Len(BinaryOps) :
          stack' = Append(stack, Act("binop", id, "operands", FALSE, FALSE, 0, 0))
    /\ val' = Null
    /\ UNCHANGED <<mode, current, frames, diag, stdout>>
    /\ UNCHANGED <<jmp_buf, current_error, ntry, nevals, thrownIn, heap,
                   calc_mem, history, parser, lexer>>

\* eval_binary_op: left = eval_node(left operand), right = eval_node(right
\* operand)
EvalBinaryOperand ==
    /\ mode = "blk" /\ stack # <<>> /\ Top.k = "binop"
    /\ \/ Top.args = <<>>
       \/ Len(Top.args) = 1 /\ WantsRight(BinaryOps[Top.id], Top.args[1])
    /\ \E v \in {Num(0), Num(1)} : Operand(Len(Top.args) + 1, v)
    /\ UNCHANGED <<mode, val, current, frames, diag>>
    /\ UNCHANGED <<jmp_buf, current_error, ntry, nevals, thrownIn, heap,
                   calc_mem, history, parser, lexer>>

\* eval_binary_op: the operator's branch combines left and right
BinaryResult(op, args) ==
    LET left == value_is_truthy(args[1])
        right == Len(args) = 2 /\ value_is_truthy(args[2])
    IN CASE op = "+" -> Num(args[1].n + args[2].n)
         [] op = "&&" -> Bool(IF left /\ right THEN 1 ELSE 0)
         [] op = "||" -> Bool(IF left \/ right THEN 1 ELSE 0)

BinaryDone ==
    /\ mode = "blk" /\ stack # <<>> /\ Top.k = "binop"
    /\ \/ Len(Top.args) = 2
       \/ Len(Top.args) = 1 /\ ~WantsRight(BinaryOps[Top.id], Top.args[1])
    /\ ReturnTo(Pop, BinaryResult(BinaryOps[Top.id], Top.args))
    /\ UNCHANGED <<current, frames, diag, stdout>>
    /\ UNCHANGED <<jmp_buf, current_error, ntry, nevals, thrownIn, heap,
                   calc_mem, history, parser, lexer>>

\* the statement `function h(x, y = x) { ... }`
DefineH == AtStatement /\ EvalFunctionXY

\* The arguments of a call of h that AST_CALL evaluates: one for each
\* parameter that has one
ArgsWanted(argc) == IF argc < 2 THEN argc ELSE 2
ParamName(i) == IF i = 1 THEN Name("x") ELSE Name("y")

\* AST_CALL is entered on  h(p(1), ..., p(argc)): the name is looked up and
\* func_env created
EvalCallStart ==
    /\ AtStatement /\ CanPush
    /\ Len(frames) < MaxEnvFrames
    /\ Len(stdout) + 2 <= MaxLines
    /\ \E argc \in 0..MaxArgs, func \in Lookup(frames, current, Name("h")) :
          IF func = Crash
          THEN Crashes /\ UNCHANGED <<frames, diag>>
          ELSE IF func.t # "function"
          THEN /\ diag' = "Undefined function"
               /\ val' = Null
               /\ UNCHANGED <<stack, mode, frames>>
          ELSE /\ frames' = env_create(frames, func.cl)
               /\ stack' = Append(stack,
                      Act("args", argc, "args", FALSE, FALSE, current,
                          Len(frames) + 1))
               /\ val' = Null
               /\ UNCHANGED <<mode, diag>>
    /\ UNCHANGED <<current, stdout>>
    /\ UNCHANGED <<jmp_buf, current_error, ntry, nevals, thrownIn, heap,
                   calc_mem, history, parser, lexer>>

\* AST_CALL, the loop over the parameters at a parameter with an argument:
\* arg = eval_node(args[i]), env_set(func_env, params[i], arg)
EvalArgument ==
    /\ mode = "blk" /\ stack # <<>> /\ Top.k = "args"
    /\ Len(Top.args) < ArgsWanted(Top.id)
    /\ \E v \in {Num(0), Num(1)} :
          /\ Operand(Len(Top.args) + 1, v)
          /\ frames' = env_set(frames, Top.fenv, ParamName(Len(Top.args) + 1), v)
    /\ UNCHANGED <<mode, val, current, diag>>
    /\ UNCHANGED <<jmp_buf, current_error, ntry, nevals, thrownIn, heap,
                   calc_mem, history, parser, lexer>>

\* AST_CALL, the rest of the loop and the swap of interp->current: y without
\* an argument gets its default x, read in the caller's frame, x without one
\* null; the body is entered
ArgsDone ==
    /\ mode = "blk" /\ stack # <<>> /\ Top.k = "args"
    /\ Len(Top.args) = ArgsWanted(Top.id)
    /\ \E defv \in Lookup(frames, current, Name("x")) :
          IF Top.id < 2 /\ defv = Crash
          THEN Crashes /\ UNCHANGED <<frames, current, diag>>
          ELSE LET F1 == IF Top.id < 1
                         THEN env_set(frames, Top.fenv, Name("x"), Null)
                         ELSE frames
                   y == IF defv = NoValue THEN Null ELSE defv
               IN /\ frames' = IF Top.id < 2
                               THEN env_set(F1, Top.fenv, Name("y"), y)
                               ELSE F1
                  /\ diag' = IF Top.id < 2 /\ defv = NoValue
                             THEN "Undefined variable" ELSE diag
                  /\ stack' = SetTop([Top EXCEPT !.k = "call", !.ph = "body"])
                  /\ current' = Top.fenv
                  /\ val' = Null
                  /\ mode' = mode
    /\ UNCHANGED stdout
    /\ UNCHANGED <<jmp_buf, current_error, ntry, nevals, thrownIn, heap,
                   calc_mem, history, parser, lexer>>

NextOrder ==
    \/ InterpreterEval
    \/ DefineH
    \/ EvalBinaryOp
    \/ EvalBinaryOperand
    \/ BinaryDone
    \/ EvalCallStart
    \/ EvalArgument
    \/ ArgsDone
    \/ CallDone
    \/ BlockDone

SpecOrder == Init /\ [][NextOrder]_vars

\* The last k lines of stdout
LastLines(k) == SubSeq(stdout, Len(stdout) - k + 1, Len(stdout))

\* C20: while an expression is evaluated the lines its operands or
\* arguments have written are 1, 2, ... in the order of the source; a
\* binary operator, && and || with any left operand included, has
\* evaluated both operands when it combines them; and a call has evaluated
\* its arguments, one for each parameter, when it enters the body
C20_LeftToRight ==
    [][/\ InExpression' =>
             /\ Len(stdout') >= Len(Top'.args)
             /\ SubSeq(stdout', Len(stdout') - Len(Top'.args) + 1, Len(stdout'))
                   = [i \in 1..Len(Top'.args) |-> i]
       /\ BinaryDone => Len(Top.args) = 2 /\ LastLines(2) = <<1, 2>>
       /\ (ArgsDone /\ mode' # "crash") =>
             LastLines(ArgsWanted(Top.id)) = [i \in 1..ArgsWanted(Top.id) |-> i]
      ]_vars

\* The right operand of an && whose left operand is false has been
\* evaluated, after the left one
C20_RightOfFalseAndEvaluated ==
    /\ InExpression /\ Top.k = "binop"
    /\ BinaryOps[Top.id] = "&&"
    /\ Len(Top.args) = 2
    /\ ~value_is_truthy(Top.args[1])
    /\ LastLines(2) = <<1, 2>>

\* ======================================================================
\* SpecLoop: while, for and for-in loops, nested in one another and in
\* function bodies, with break, continue and return in their bodies
\* ======================================================================
MaxIterations == 1
MaxElements == 4
MaxOutput == 2

LoopKinds == {"loop", "for", "forin"}

\* the arrays a for-in statement runs over: [] and [1, 2, 3, 4]
Collections == {[i \in 1..n |-> Num(i)] : n \in {0, MaxElements}}

\* a loop that hands every sentinel of its body on to its caller
LoopResultPassing(result) == result

\* The Value a loop returns when its body gave Break (`value_free(result);
\* return value_create_null()`) or Return (`return result`)
LoopResult(result) == IF result.t = "break" THEN Null ELSE result

\* The Value a loop returns when its condition is falsy or its elements are
\* exhausted: `result`, which a Continue has replaced by null
LoopLast(result) == IF result.t = "continue" THEN Null ELSE result

\* AST_FOR: init is evaluated and its Value freed; then the condition is
\* falsy at once, or truthy and the body is entered
EvalFor ==
    /\ AtStmt /\ CanPush
    /\ \/ stack' = Append(stack, Act("for", 0, "body", FALSE, FALSE, 0, 0))
       \/ stack' = stack
    /\ val' = Null
    /\ UNCHANGED <<mode, jmp_buf, current_error, current, frames, ntry, nevals,
                   thrownIn>>
    /\ UNCHANGED <<diag, heap, calc_mem, history, parser, lexer, stdout>>

\* AST_FOR after the body returned `result`; `fin` counts the evaluations of
\* the increment
ForBodyDone ==
    /\ mode = "blk" /\ stack # <<>>
    /\ Top.k = "for"
    /\ \/ /\ val.t \in {"break", "return"}
          /\ ReturnTo(Pop, LoopResult(val))
       \/ /\ val.t \notin {"break", "return"}   \* increment, condition truthy
          /\ Top.fin < MaxIterations
          /\ stack' = SetTop([Top EXCEPT !.fin = @ + 1])
          /\ val' = Null
          /\ mode' = mode
       \/ /\ val.t \notin {"break", "return"}   \* increment, condition falsy
          /\ ReturnTo(Pop, LoopLast(val))
    /\ UNCHANGED <<jmp_buf, current_error, current, frames, ntry, nevals, thrownIn>>
    /\ UNCHANGED <<diag, heap, calc_mem, history, parser, lexer, stdout>>

\* AST_FOR_IN over an array: the collection is evaluated; with no element
\* the statement gives null, else x is set to a clone of the first element
\* in interp->current and the body is entered.  `args` holds the elements and
\* `fin` the place of the element the body runs for
EvalForIn ==
    /\ AtStmt /\ CanPush
    /\ \E collection \in Collections :
          IF collection = <<>>
          THEN UNCHANGED <<stack, frames, diag>>
          ELSE /\ stack' = Append(stack,
                      [Act("forin", 0, "body", FALSE, FALSE, 0, 0)
                          EXCEPT !.args = collection, !.fin = 1])
               /\ frames' = env_set(frames, current, Name("x"), collection[1])
               /\ diag' = env_set_diag(frames, current, Name("x"),
                                       collection[1], diag)
    /\ val' = Null
    /\ UNCHANGED <<mode, jmp_buf, current_error, current, ntry, nevals, thrownIn>>
    /\ UNCHANGED <<heap, calc_mem, history, parser, lexer, stdout>>

\* AST_FOR_IN after the body returned `result`
ForInBodyDone ==
    /\ mode = "blk" /\ stack # <<>>
    /\ Top.k = "forin"
    /\ \/ /\ val.t \in {"break", "return"}
          /\ ReturnTo(Pop, LoopResult(val))
          /\ UNCHANGED <<frames, diag>>
       \/ /\ val.t \notin {"break", "return"}   \* i++, i < count
          /\ Top.fin < Len(Top.args)
          /\ stack' = SetTop([Top EXCEPT !.fin = @ + 1])
          /\ frames' = env_set(frames, current, Name("x"), Top.args[Top.fin + 1])
          /\ diag' = env_set_diag(frames, current, Name("x"),
                                  Top.args[Top.fin + 1], diag)
          /\ val' = Null
          /\ mode' = mode
       \/ /\ val.t \notin {"break", "return"}   \* i++, i = count
          /\ Top.fin = Len(Top.args)
          /\ ReturnTo(Pop, LoopLast(val))
          /\ UNCHANGED <<frames, diag>>
    /\ UNCHANGED <<jmp_buf, current_error, current, ntry, nevals, thrownIn>>
    /\ UNCHANGED <<heap, calc_mem, history, parser, lexer, stdout>>

\* the statement system.output(x) of a for-in body, x being a number bound
\* in the chain of interp->current
EvalOutputX ==
    /\ AtStmt /\ Top.k = "forin"
    /\ Len(stdout) < MaxOutput
    /\ env_has(frames, current, Name("x"))
    /\ env_get(frames, current, Name("x")).t = "number"
    /\ stdout' = Append(stdout, env_get(frames, current, Name("x")).n)
    /\ val' = Null
    /\ UNCHANGED <<stack, mode, jmp_buf, current_error, current, frames, ntry,
                   nevals, thrownIn>>
    /\ UNCHANGED <<diag, heap, calc_mem, history, parser, lexer>>

NextLoop ==
    \/ InterpreterEval
    \/ EvalBreak
    \/ EvalContinue
    \/ EvalReturn
    \/ EvalIf
    \/ BlockDone
    \/ EvalWhile
    \/ WhileBodyDone
    \/ EvalFor
    \/ ForBodyDone
    \/ EvalForIn
    \/ ForInBodyDone
    \/ EvalOutputX
    \/ EvalFunction
    \/ EvalCall
    \/ CallDone

SpecLoop == Init /\ [][NextLoop]_vars

\* The activations below the top one are left as they are
OuterKept == Len(stack') = Len(stack) /\ Pop' = Pop

\* C21: a Break that reaches a loop ends that loop and nothing else: the
\* loop returns null to the activation that holds it, which is left as it
\* is (an outer loop keeps its iteration).  A Continue that reaches a loop
\* either starts that loop's next iteration (for a for loop after the
\* increment, for a for-in loop with x set to the next element) or, when
\* there is none, ends the loop with null; the outer activations are left as
\* they are.  A Return passes unchanged through every block and loop and is
\* unwrapped by the call activation, which restores interp->current; a Break
\* or Continue passes unchanged through a block.
C21_NearestLoopConsumes ==
    [][(mode = "blk" /\ stack # <<>> /\ IsSentinel(val)) =>
         /\ (Top.k \in LoopKinds /\ val.t = "break") =>
               stack' = Pop /\ val' = Null
         /\ (Top.k \in LoopKinds /\ val.t = "continue") =>
               \/ stack' = Pop /\ val' = Null
                     /\ (Top.k = "forin" => Top.fin = Len(Top.args))
               \/ /\ OuterKept /\ val' = Null
                  /\ Top'.k = Top.k /\ Top'.fin = Top.fin + 1
                  /\ Top.k = "forin" =>
                        env_get(frames', current', Name("x")) = Top.args[Top'.fin]
               \/ /\ Top.k = "loop" /\ stack' = stack /\ val' = Null
         /\ (Top.k \in LoopKinds \cup {"block"} /\ val.t = "return") =>
               stack' = Pop /\ val' = val
         /\ (Top.k = "block") => stack' = Pop /\ val' = val
         /\ (Top.k = "call") =>
               /\ stack' = Pop /\ current' = Top.saved
               /\ val' = IF val.t = "return" THEN Unwrap(val) ELSE Null
      ]_vars

\* The run of the example: a for-in loop over [1, 2, 3, 4] inside a for
\* loop wrote 1 and 2 and was ended by a break at x = 3; the for loop, in
\* its second iteration, goes on
C21_BreakAtThreeOuterGoesOn ==
    /\ mode = "blk" /\ Len(stack) = 2
    /\ Top.k = "for" /\ Top.fin = 1
    /\ val = Null
    /\ stdout = <<1, 2>>
    /\ env_get(frames, current, Name("x")) = Num(3)

\* ======================================================================
\* SpecCalc: the calculator memory: system.store, system.recall and
\* system.memclear, with numbers, array literals and the array a as values
\* ======================================================================
\* the names of the first argument and the second argument of system.store:
\* the number 1, the literal [1], the identifier a
CalcNames == {"m", "k"}
StoreArgs == {"1", "[1]", "a"}

\* eval_node on an argument, in memory m: the memory after it and the Value
Argument(m, arg) ==
    IF arg = "1" THEN [m |-> m, v |-> Num(1)]
    ELSE IF arg = "[1]"
    THEN [m |-> [h |-> alloc(m.h, <<Num(1)>>), ub |-> m.ub],
          v |-> Arr(Len(m.h) + 1)]
    ELSE Identifier(m)

ArgumentDiag(arg) == IF arg = "a" THEN IdentifierDiag ELSE diag

\* system.store(n, arg): v is evaluated, a memcpy of it goes to calc_mem by
\* env_set, which frees the Value stored under n before; then v is freed
SystemStoreOf(n, arg) ==
    /\ AtStmt /\ Room(2)
    /\ LET r == Argument(AfterBlockFree, arg)
           c == ShallowCopy(r.m, r.v)
           old == env_get(calc_mem, 1, Name(n))
           m1 == IF old = NoValue THEN c.m ELSE value_free(c.m, old)
       IN Finish(value_free(m1, r.v), Null, frames,
                 env_set(calc_mem, 1, Name(n), c.v), history, ArgumentDiag(arg))
    /\ HeapUnchanged

SystemStore == \E n \in CalcNames, arg \in StoreArgs : SystemStoreOf(n, arg)

\* system.recall(n): a memcpy of the Value env_get finds, or null
SystemRecallOf(n) ==
    /\ AtStmt /\ Room(1)
    /\ LET stored == env_get(calc_mem, 1, Name(n))
           c == IF stored = NoValue THEN [m |-> AfterBlockFree, v |-> Null]
                ELSE ShallowCopy(AfterBlockFree, stored)
       IN Finish(c.m, c.v, frames, calc_mem, history, diag)
    /\ HeapUnchanged

SystemRecall == \E n \in CalcNames : SystemRecallOf(n)

\* system.memclear: env_free(calc_mem), which frees every stored Value, and
\* calc_mem = env_create(NULL)
SystemMemclear ==
    /\ AtStmt
    /\ LET vs == calc_mem[1].vars
           stored == [i \in 1..Len(vs) |-> vs[i].value]
       IN Finish(FreeElements(AfterBlockFree, stored, 1), Null, frames,
                 env_create(<<>>, 0), history, diag)
    /\ HeapUnchanged

NextCalc ==
    \/ InterpreterEval
    \/ HeapDeclare
    \/ HeapIdentifier
    \/ SystemStore
    \/ SystemRecall
    \/ SystemMemclear
    \/ BlockDone

SpecCalc == Init /\ [][NextCalc]_vars

\* What a Value shows when it is read in memory H: a number its number, an
\* array its elements' showings, and "freed" when its storage is freed
RECURSIVE Content(_, _)
Content(H, v) ==
    IF v.t \in {"array", "string"}
    THEN IF H[v.n].st = "freed"
         THEN [t |-> "freed", n |-> 0, elems |-> <<>>]
         ELSE [t |-> v.t, n |-> 0,
               elems |-> [i \in 1..Len(H[v.n].elems) |->
                             Content(H, H[v.n].elems[i])]]
    ELSE [t |-> v.t, n |-> v.n, elems |-> <<>>]

\* What the bindings of the frames and of the calculator memory show
FrameContents(H, F) ==
    [e \in 1..Len(F) |-> [i \in 1..Len(F[e].vars) |-> Content(H, F[e].vars[i].value)]]

\* C22: system.store(n, v) leaves under n a Value that shows what v showed,
\* and the other names as they were; system.recall(n) returns a Value that
\* shows what the Value stored under n shows, in storage of its own, and null
\* when nothing is stored under n; system.memclear leaves nothing stored;
\* every other step leaves the stored Values showing what they showed; none
\* of the three ends the process or changes what a binding of a frame shows.
C22_RecallGivesLastStored ==
    [][/\ \A n \in CalcNames, arg \in StoreArgs :
            SystemStoreOf(n, arg) =>
               /\ mode' # "crash"
               /\ Content(heap', env_get(calc_mem', 1, Name(n)))
                     = Content(Argument(AfterBlockFree, arg).m.h,
                               Argument(AfterBlockFree, arg).v)
               /\ \A k \in CalcNames \ {n} :
                     Content(heap', env_get(calc_mem', 1, Name(k)))
                        = Content(heap, env_get(calc_mem, 1, Name(k)))
       /\ \A n \in CalcNames :
            SystemRecallOf(n) =>
               /\ mode' # "crash"
               /\ Content(heap', val')
                     = IF env_has(calc_mem, 1, Name(n))
                       THEN Content(heap, env_get(calc_mem, 1, Name(n)))
                       ELSE Content(heap, Null)
               /\ Reach(heap', val')
                     \cap Reach(heap', env_get(calc_mem', 1, Name(n))) = {}
       /\ SystemMemclear =>
               mode' # "crash" /\ calc_mem'[1].vars = <<>>
       /\ (SystemStore \/ SystemRecall \/ SystemMemclear) =>
               FrameContents(heap', frames') = FrameContents(heap, frames)
       /\ (mode' # "crash" /\ ~SystemStore /\ ~SystemMemclear) =>
               FrameContents(heap', calc_mem') = FrameContents(heap, calc_mem)
      ]_vars

\* ======================================================================
\* SpecHist: the history: system.history.add, .get and .clear
\* ======================================================================
MaxAdded == 2

\* system.history.add(arg): the Value eval_node gave is kept itself
HistoryAddOf(arg) ==
    /\ AtStmt /\ Room(1)
    /\ Len(history) < MaxAdded
    /\ LET r == Argument(AfterBlockFree, arg)
       IN Finish(r.m, Null, frames, calc_mem, Append(history, r.v),
                 ArgumentDiag(arg))
    /\ HeapUnchanged

HistoryAdd == \E arg \in StoreArgs : HistoryAddOf(arg)

\* system.history.clear: value_free of every entry, history_count = 0
HistoryClear ==
    /\ AtStmt
    /\ Finish(FreeElements(AfterBlockFree, history, 1), Null, frames, calc_mem,
              <<>>, diag)
    /\ HeapUnchanged

NextHist ==
    \/ InterpreterEval
    \/ HeapDeclare
    \/ HistoryAdd
    \/ HeapHistoryGet
    \/ HistoryClear
    \/ BlockDone

SpecHist == Init /\ [][NextHist]_vars

\* What the entries of the history show, oldest first
HistoryContents(H, hist) == [i \in 1..Len(hist) |-> Content(H, hist[i])]

\* The allocations of the entries of the history
HistoryStorage(H, hist) == UNION {Reach(H, hist[i]) : i \in 1..Len(hist)}

\* C23: system.history.add(v) puts what v shows after the entries there
\* are; system.history.get returns an array, in storage of its own, whose
\* elements show what the entries show, in their order, and leaves the
\* entries as they are; system.history.clear leaves no entry; no other
\* step changes what the entries show (so two gets in a row return equal
\* arrays), and none of the three ends the process.
C23_GetGivesAddedInOrder ==
    [][/\ \A arg \in StoreArgs :
            HistoryAddOf(arg) =>
               /\ mode' # "crash"
               /\ HistoryContents(heap', history')
                     = Append(HistoryContents(heap, history),
                              Content(Argument(AfterBlockFree, arg).m.h,
                                      Argument(AfterBlockFree, arg).v))
       /\ HeapHistoryGet =>
               /\ mode' # "crash"
               /\ val'.t = "array"
               /\ Content(heap', val').elems = HistoryContents(heap, history)
               /\ Reach(heap', val') \cap HistoryStorage(heap', history') = {}
       /\ HistoryClear =>
               mode' # "crash" /\ history' = <<>>
       /\ (mode' # "crash" /\ ~HistoryAdd /\ ~HistoryClear) =>
               HistoryContents(heap', history') = HistoryContents(heap, history)
      ]_vars

\* ======================================================================
\* SpecLex: lexer_next_token (lexer.c) on the characters of a source text
\* ======================================================================
MaxSource == 4

\* The characters of a source text: # , newline, blank, a letter, a double
\* quote; the element "include" stands for the letters of include or of
\* involve, which lexer_skip_comment and lexer_next_token compare as a whole
Alphabet == {"#", "\n", " ", "a", "\"", "include"}
NUL == "NUL"

SourceTexts == UNION {[1..n -> Alphabet] : n \in 1..MaxSource}

\* lexer_peek at position pos (counted from 0)
lexer_peek(source, pos) == IF pos >= Len(source) THEN NUL ELSE source[pos + 1]

isspace(c) == c \in {" ", "\n"}
isalnum(c) == c \in {"a", "include"}

\* The position after lexer_advance was called while `stop` does not hold a
\* character of the set
RECURSIVE AdvanceUntil(_, _, _)
AdvanceUntil(source, pos, stop) ==
    IF lexer_peek(source, pos) \in stop \cup {NUL} THEN pos
    ELSE AdvanceUntil(source, pos + 1, stop)

lexer_skip_whitespace(source, pos) ==
    AdvanceUntil(source, pos, Alphabet \ {" ", "\n"})

\* lexer_skip_comment: at a # that does not start #include or #involve the
\* characters up to the newline are passed over; called once for a token
lexer_skip_comment(source, pos) ==
    IF lexer_peek(source, pos) = "#" /\ lexer_peek(source, pos + 1) # "include"
    THEN AdvanceUntil(source, pos, {"\n"})
    ELSE pos

Token(type, start, end) == [type |-> type, start |-> start, end |-> end]

\* lexer_read_string at the opening quote: up to the closing quote, or to the
\* end of the text
lexer_read_string(source, pos) ==
    LET close == AdvanceUntil(source, pos + 1, {"\""})
    IN IF lexer_peek(source, close) = "\"" THEN close + 1 ELSE close

\* lexer_next_token: the token and the position after it.  A token tells
\* the characters it was made of: those from start up to end - 1
lexer_next_token(source, position) ==
    LET pos == lexer_skip_whitespace(source,
                   lexer_skip_comment(source,
                       lexer_skip_whitespace(source, position)))
        c == lexer_peek(source, pos)
    IN IF c = NUL THEN Token("EOF", pos, pos)
       ELSE IF c = "\"" THEN Token("STRING", pos, lexer_read_string(source, pos))
       ELSE IF isalnum(c)
       THEN Token("IDENTIFIER", pos, AdvanceUntil(source, pos, Alphabet \ {"a", "include"}))
       ELSE \* case '#'
            IF lexer_peek(source, pos + 1) = "include"
            THEN LET path == lexer_skip_whitespace(source, pos + 2)
                 IN IF lexer_peek(source, path) = "\""
                    THEN Token("INCLUDE", pos, lexer_read_string(source, path))
                    ELSE Token("ERROR", pos, path)
            ELSE Token("ERROR", pos, pos + 1)

LexUnchanged ==
    UNCHANGED <<stack, mode, val, jmp_buf, current_error, current, frames, ntry,
                nevals, thrownIn, diag, heap, calc_mem, history, parser, stdout>>

\* lexer_create on a source text
LexerCreate ==
    /\ mode = "idle" /\ nevals = 0
    /\ lexer.source = <<>> /\ lexer.tokens = <<>>
    /\ \E source \in SourceTexts :
          lexer' = [source |-> source, position |-> 0, tokens |-> <<>>]
    /\ LexUnchanged

\* The parser asks for the next token, until it has got EOF
LexerNextToken ==
    /\ mode = "idle" /\ nevals = 0
    /\ IF lexer.tokens = <<>> THEN TRUE
       ELSE lexer.tokens[Len(lexer.tokens)].type # "EOF"
    /\ LET token == lexer_next_token(lexer.source, lexer.position)
       IN lexer' = [lexer EXCEPT !.position = token.end,
                                 !.tokens = Append(@, token)]
    /\ LexUnchanged

NextLex ==
    \/ LexerCreate
    \/ LexerNextToken

SpecLex == Init /\ [][NextLex]_vars

\* The characters of the comments of a source text, read from position pos
\* on: outside a string literal, a # that does not start #include or
\* #involve opens a comment, which ends before the next newline or at the
\* end of the text
RECURSIVE CommentChars(_, _)
CommentChars(source, pos) ==
    LET c == lexer_peek(source, pos)
    IN IF c = NUL THEN {}
       ELSE IF c = "\"" THEN CommentChars(source, lexer_read_string(source, pos))
       ELSE IF c = "#" /\ lexer_peek(source, pos + 1) # "include"
       THEN LET end == AdvanceUntil(source, pos, {"\n"})
            IN (pos..(end - 1)) \cup CommentChars(source, end)
       ELSE CommentChars(source, pos + 1)

\* C24: no token is made of a character of a comment
C24_CommentsGiveNoToken ==
    \A i \in 1..Len(lexer.tokens) :
        (lexer.tokens[i].start..(lexer.tokens[i].end - 1))
            \cap CommentChars(lexer.source, 0) = {}

\* ======================================================================
\* SpecFor: the recursive-descent parser (parser.c) on the tokens of a
\* C-style for statement.  A token is its type; a node tells its kind, the
\* tokens it was parsed from (those from `from` up to `to` - 1; `to` is the
\* current token when the parse function returns) and its parts
\* ======================================================================
TokenAt(ts, p) == IF p > Len(ts) THEN "EOF" ELSE ts[p]

Node(kind, from, to, parts) ==
    [kind |-> kind, from |-> from, to |-> to, parts |-> parts]

\* A node as a part of its parent
Shallow(node) == [node EXCEPT !.parts = <<>>]

\* parser_advance: past the end of the text every token is EOF
parser_advance(ts, p) == IF p > Len(ts) THEN p ELSE p + 1

\* parser_expect: advances when the current token has the type, else writes
\* a parse error and stays
parser_expect(ts, p, type) == IF TokenAt(ts, p) = type THEN p + 1 ELSE p

RECURSIVE parse_primary(_, _)
RECURSIVE MapEntries(_, _)
RECURSIVE parse_comparison(_, _)
RECURSIVE parse_statement(_, _)
RECURSIVE BlockStatements(_, _)
RECURSIVE parse_for_statement(_, _)

\* parse_expression: the precedence chain down to parse_primary, of which
\* the streams have the operator < only
parse_expression(ts, p) == parse_comparison(ts, parse_primary(ts, p))

\* parse_comparison with `left` parsed
parse_comparison(ts, left) ==
    IF TokenAt(ts, left.to) = "<"
    THEN parse_comparison(ts,
             Node("binary", left.from, parse_primary(ts, left.to + 1).to, <<>>))
    ELSE left

\* parse_primary: a number, an identifier, a map literal { key: value, ... };
\* any other token is an `unexpected token` error: it is passed over and the
\* node is a null node
parse_primary(ts, p) ==
    LET c == TokenAt(ts, p)
    IN IF c = "num" THEN Node("number", p, p + 1, <<>>)
       ELSE IF c = "id" THEN Node("identifier", p, p + 1, <<>>)
       ELSE IF c = "{"
       THEN IF TokenAt(ts, p + 1) = "}" THEN Node("map", p, p + 2, <<>>)
            ELSE Node("map", p, parser_expect(ts, MapEntries(ts, p + 1), "}"), <<>>)
       ELSE Node("null", p, parser_advance(ts, p), <<>>)

\* the loop over the entries of a map literal: the current token after it
MapEntries(ts, p) ==
    LET key == parse_expression(ts, p)
        value == parse_expression(ts, parser_expect(ts, key.to, ":"))
    IN IF TokenAt(ts, value.to) = "," THEN MapEntries(ts, value.to + 1)
       ELSE value.to

\* parse_block: the statements up to } or EOF
BlockStatements(ts, p) ==
    IF TokenAt(ts, p) \in {"}", "EOF"} THEN p
    ELSE BlockStatements(ts, parse_statement(ts, p).to)

parse_block(ts, p) ==
    Node("block", p,
         parser_expect(ts, BlockStatements(ts, parser_expect(ts, p, "{")), "}"),
         <<>>)

\* parse_for_statement, C-style form (the streams have no `in`)
parse_for_statement(ts, p) ==
    LET init == parse_statement(ts, parser_expect(ts, p + 1, "("))
        condition == parse_expression(ts, init.to)
        increment == parse_expression(ts, parser_expect(ts, condition.to, ";"))
        rparen == parser_expect(ts, increment.to, ")")
        body == parse_block(ts, IF TokenAt(ts, rparen) = "=>" THEN rparen + 1
                                ELSE rparen)
    IN Node("for", p, body.to,
            <<Shallow(init), Shallow(condition), Shallow(increment), Shallow(body)>>)

\* parse_statement: the empty statement `;`, a for statement, an &insert
\* declaration, an assignment `id = expression`; an identifier that starts
\* no assignment is passed over and what follows is parsed as an expression;
\* anything else is parsed as an expression
parse_statement(ts, p) ==
    LET c == TokenAt(ts, p)
    IN IF c = ";" THEN Node("null", p, p + 1, <<>>)
       ELSE IF c = "for" THEN parse_for_statement(ts, p)
       ELSE IF c = "&insert"
       THEN IF TokenAt(ts, p + 1) # "id" THEN Node("null", p, p + 1, <<>>)
            ELSE Node("assign", p,
                      parse_expression(ts, parser_expect(ts, p + 2, "=")).to, <<>>)
       ELSE IF c = "id"
       THEN IF TokenAt(ts, p + 1) = "="
            THEN Node("assign", p, parse_expression(ts, p + 2).to, <<>>)
            ELSE [parse_expression(ts, p + 1) EXCEPT !.from = p]
       ELSE parse_expression(ts, p)

\* The for statements given to the parser:
\*    for ( init ; condition ; increment ) [=>] { body } rest
Inits == {<<>>, <<"id", "=", "num">>, <<"&insert", "id", "=", "num">>}
Conditions == {<<"id">>, <<"id", "<", "num">>}
Increments == {<<"id">>, <<"num", "<", "id">>}
Bodies == {<<>>, <<"id", "=", "num", ";">>}
Rests == {<<>>, <<"id", "=", "num", ";">>}

ForStatement(init, condition, increment, arrow, body, rest) ==
    <<"for", "(">> \o init \o <<";">> \o condition \o <<";">> \o increment
       \o <<")">> \o arrow \o <<"{">> \o body \o <<"}">> \o rest

ForStatements ==
    {ForStatement(i, c, n, a, b, r) :
        i \in Inits, c \in Conditions, n \in Increments,
        a \in {<<>>, <<"=>">>}, b \in Bodies, r \in Rests}

\* main: lexer_create and parser_create on a for statement
ParserCreateFor ==
    /\ parser = <<>> /\ mode = "idle" /\ nevals = 0
    /\ \E tokens \in ForStatements : parser' = <<parser_create("main", tokens)>>
    /\ UNCHANGED <<stack, mode, val, diag, stdout>>
    /\ ParseUnchanged

\* parser_parse: one turn of its loop: parse_statement, then the optional ;
ParserParseStatement ==
    /\ AtToken
    /\ LET node == parse_statement(TopParser.tokens, TopParser.pos)
           next == IF TokenAt(TopParser.tokens, node.to) = ";" THEN node.to + 1
                   ELSE node.to
       IN parser' = SetTopParser([TopParser EXCEPT !.statements = Append(@, node),
                                                   !.pos = next])
    /\ UNCHANGED <<stack, mode, val, diag, stdout>>
    /\ ParseUnchanged

NextFor ==
    \/ ParserCreateFor
    \/ ParserParseStatement

SpecFor == Init /\ [][NextFor]_vars

\* The place of the k-th token of type c in ts
RECURSIVE PlaceOf(_, _, _, _)
PlaceOf(ts, c, k, p) ==
    IF ts[p] = c THEN (IF k = 1 THEN p ELSE PlaceOf(ts, c, k - 1, p + 1))
    ELSE PlaceOf(ts, c, k, p + 1)

\* C25: the first statement parsed from a for statement is a for node made
\* of exactly the tokens of the loop, whose init is made of the tokens
\* before the first ; (when there are any), whose condition is made of the
\* tokens between the two ; , whose increment of those between the second ;
\* and the ) and whose body of those from { to }
C25_ForNodeMatchesSource ==
    (Parsing /\ TopParser.statements # <<>>) =>
        LET ts == TopParser.tokens
            for == TopParser.statements[1]
            first == PlaceOf(ts, ";", 1, 1)
            second == PlaceOf(ts, ";", 2, 1)
            rparen == PlaceOf(ts, ")", 1, 1)
            lbrace == PlaceOf(ts, "{", 1, 1)
            rbrace == PlaceOf(ts, "}", 1, 1)
        IN /\ for.kind = "for" /\ for.from = 1 /\ for.to = rbrace + 1
           /\ first > 3 =>
                 /\ for.parts[1].kind = "assign"
                 /\ for.parts[1].from = 3 /\ for.parts[1].to = first
           /\ for.parts[2].kind \in {"identifier", "binary"}
           /\ for.parts[2].from = first + 1 /\ for.parts[2].to = second
           /\ for.parts[3].kind \in {"identifier", "binary"}
           /\ for.parts[3].from = second + 1 /\ for.parts[3].to = rparen
           /\ for.parts[4].kind = "block"
           /\ for.parts[4].from = lbrace /\ for.parts[4].to = rbrace + 1

\* ---------------------------------------------------------------- claim C26
\* The try activation in whose try block the statement at the top of s runs
ThrowingTry(s) == s[LiveAt(s, NearestTry(s, Len(s)))]

\* C26: an error thrown in the try block of a try statement without a catch
\* clause arrives at that try statement and is dropped there: the stack is
\* cut back to its activation, current_error is cleared, no catch block is
\* entered, the finally block runs when there is one, and the statement
\* returns null to the activation that holds it, which goes on.
C26_DroppedAtCatchlessTry ==
    [][/\ (ThrowError /\ NearestTry(stack, Len(stack)) # 0
             /\ ~ThrowingTry(stack).hc) =>
             /\ mode' = "unwind"
             /\ stack' = SubSeq(stack, 1,
                                LiveAt(stack, NearestTry(stack, Len(stack))))
       /\ (CatchSite /\ ~Top.hc) =>
             /\ Top.id = thrownIn
             /\ current_error' = NULL
             /\ IF Top.hf
                THEN /\ Len(stack') = Len(stack) /\ Pop' = Pop
                     /\ Top'.ph = "finally" /\ Top'.res = Null
                ELSE stack' = Pop /\ val' = Null /\ mode' = "blk"
      ]_vars

\* ---------------------------------------------------------------- claim C27
\* C27: no file is parsed while a parse of the same file is under way (the
\* directive that would re-enter it gives a null node), so the nesting of
\* parser instances is bounded by the number of files and the parse never
\* exhausts the C stack.
C27_NoFileReentered ==
    /\ mode # "crash"
    /\ \A i \in 1..Len(parser) : \A j \in (i + 1)..Len(parser) :
          parser[i].file # parser[j].file


\* ---------------------------------------------------------------- assignment to a typed binding
\* The values assigned: `x = 2` and `x = true`
AssignedValues == {Num(2), Bool(1)}

\* AST_ASSIGN with TOKEN_INSERT and the annotation `unknown`:
\* `&insert x: unknown = v`.  The annotation fits every value; env_declare,
\* then env_annotate.
EvalDeclareUnknown ==
    /\ AtStmt
    /\ \E value \in {Num(1), Bool(1)} :
          /\ diag' = env_declare_diag(frames, current, Name("x"), diag)
          /\ frames' = env_annotate(
                 env_declare(frames, current, Name("x"), value, FALSE),
                 current, Name("x"), "unknown")
    /\ val' = Null
    /\ UNCHANGED <<stack, mode, current>>
    /\ EnvUnchanged

\* AST_ASSIGN with TOKEN_ASSIGN: `x = value`.  env_has walks the parent chain,
\* env_set is given interp->current.
EvalAssignValueOf(value) ==
    /\ AtStmt
    /\ \E has \in Lookup(frames, current, Name("x")) :
          IF has = Crash
          THEN Crashes /\ UNCHANGED <<frames, diag>>
          ELSE /\ IF has = NoValue
                  THEN /\ diag' = "Assignment to undeclared variable"
                       /\ frames' = frames
                  ELSE /\ diag' = env_set_diag(frames, current, Name("x"),
                                               value, diag)
                       /\ frames' = env_set(frames, current, Name("x"), value)
               /\ val' = Null
               /\ UNCHANGED <<stack, mode>>
    /\ UNCHANGED current
    /\ EnvUnchanged

EvalAssignValue == \E value \in AssignedValues : EvalAssignValueOf(value)

NextType ==
    \/ InterpreterEval
    \/ EvalDeclare
    \/ EvalDeclareTyped
    \/ EvalDeclareUnknown
    \/ EvalAssignValue
    \/ EvalFunction
    \/ EvalCall
    \/ CallDone
    \/ BlockDone

SpecType == Init /\ [][NextType]_vars

\* C28: a binding made by a declaration keeps the type name recorded when it
\* was made, whatever runs later; an assignment `x = value` in the frame of
\* such a binding (one that is not const: for a const binding env_set refuses
\* every assignment before it looks at the type) is refused with the
\* type-mismatch diagnostic and leaves the value alone when the value's type
\* name differs from the recorded one and the recorded one is not `unknown`,
\* and otherwise stores the value.
C28_LockedToDeclaredType ==
    [][\A e \in 1..Len(frames) : \A i \in 1..Len(frames[e].vars) :
          LET b == frames[e].vars[i]
          IN (b.type # NULL /\ i <= Len(frames'[e].vars)) =>
                /\ frames'[e].vars[i].type = b.type
                /\ \A value \in AssignedValues :
                      (EvalAssignValueOf(value) /\ mode' # "crash"
                          /\ e = current /\ b.name = Name("x")
                          /\ ~b.is_const) =>
                         IF type_name(value) # b.type /\ b.type # "unknown"
                         THEN /\ diag' = "Type mismatch"
                              /\ frames'[e].vars[i].value = b.value
                         ELSE frames'[e].vars[i].value = value
      ]_vars


\* ---------------------------------------------------------------- declarations inside bodies
\* The activations that run a body without a frame of their own: the block
\* of an if/else branch (AST_BLOCK), the body of a while loop, the blocks of
\* a try statement
BodyKinds == {"block", "loop", "try"}

NextBody ==
    \/ InterpreterEval
    \/ EvalDeclare
    \/ EvalIf
    \/ BlockDone
    \/ EvalWhile
    \/ WhileBodyDone
    \/ EvalFunction
    \/ EvalCall
    \/ CallDone
    \/ EvalTry
    \/ TryBodyDone
    \/ FinallyDone
    \/ ThrowError
    \/ CatchSite

SpecBody == Init /\ [][NextBody]_vars

\* C29: entering and leaving the body of an if/else, a loop or a try
\* statement changes neither interp->current nor the number of frames, and
\* leaving it keeps every binding; a declaration of x evaluated inside such a
\* body binds x in the frame of the innermost function call still running
\* (the global frame when there is none), and when that frame binds x
\* already it reports the already-declared diagnostic and keeps the first
\* binding.
C29_BodiesShareTheFrame ==
    [][/\ (EvalIf \/ EvalWhile \/ EvalTry \/ CatchSite) =>
             (current' = current /\ Len(frames') = Len(frames))
       /\ (BlockDone \/ WhileBodyDone \/ TryBodyDone \/ FinallyDone) =>
             (current' = current /\ frames' = frames)
       /\ (EvalDeclare /\ Top.k \in BodyKinds) =>
             LET e == FrameOf(stack, Len(stack))
             IN IF IndexOf(frames[e].vars, Name("x")) # 0
                THEN diag' = "Variable already declared" /\ frames' = frames
                ELSE IndexOf(frames'[e].vars, Name("x")) # 0
      ]_vars


\* ---------------------------------------------------------------- the parser, step by step
\* The recursive-descent parser as the C call stack runs it: `stack` holds
\* one activation per parse_* call under way, `ph` being the place in the
\* function where it goes on and `at` the number of tokens consumed when the
\* current turn of its loop began.  The Parser holds its current_token only.
\* The text behind the lexer is not fixed in advance: every token the lexer
\* gives is any token type, so the behaviours are the parses of all token
\* streams of at most MaxTokens tokens; lexer.position counts the tokens
\* consumed.  There are no include directives, operators or keywords other
\* than the ones listed.
MaxTokens == 5

TokenTypes == {"IDENTIFIER", "NUMBER", "(", ")", "{", "}", "[", "]", ",", ":",
               "=", ";", "function", "match", "case", "default", "enum",
               "ERROR"}

PAct(k, ph, at) == [k |-> k, ph |-> ph, at |-> at]

current_token == parser[1].tokens[1]

\* lexer_next_token, seen from the parser: at the end of the text the token
\* is EOF and the position stays (position >= length)
NextTokens ==
    IF current_token = "EOF" \/ lexer.position + 1 >= MaxTokens
    THEN {"EOF"} ELSE TokenTypes \cup {"EOF"}

TermUnchanged ==
    UNCHANGED <<val, jmp_buf, current_error, current, frames, ntry, nevals,
                thrownIn, heap, calc_mem, history, stdout>>

\* parser_advance, the call stack becoming s
Take(s) ==
    /\ stack' = s
    /\ \E token \in NextTokens :
          parser' = [parser EXCEPT ![1].tokens = <<token>>]
    /\ lexer' = [lexer EXCEPT !.position =
                    IF current_token = "EOF" THEN @ ELSE @ + 1]
    /\ mode' = mode

\* No token is consumed, the call stack becoming s
Keep(s) ==
    /\ stack' = s
    /\ UNCHANGED <<parser, lexer, mode>>

\* parser_expect(type), then on with the call stack s
Expect(type, s) ==
    IF current_token = type
    THEN Take(s) /\ diag' = diag
    ELSE Keep(s) /\ diag' = "Parse error"

\* if (current_token->type == type) parser_advance(parser);
Skip(type, s) ==
    /\ IF current_token = type THEN Take(s) ELSE Keep(s)
    /\ diag' = diag

\* The places the top activation can go on to
Goto(ph) == SetTop([Top EXCEPT !.ph = ph])
Begin(ph) == SetTop([Top EXCEPT !.ph = ph, !.at = lexer.position])
Become(k, ph) == SetTop(PAct(k, ph, 0))

\* A call of k on top of the stack s
Call(s, k, ph) == Append(s, PAct(k, ph, 0))

\* A call of parse_expression: without operators in the text it is
\* parse_postfix, which starts with parse_primary
Expression(s) ==
    s \o <<PAct("parse_postfix", "index", 0), PAct("parse_primary", "entry", 0)>>

At(k, ph) == mode = "parse" /\ stack # <<>> /\ Top.k = k /\ Top.ph = ph

\* run_file: parser_create, which asks the lexer for the first token, and
\* the call of parser_parse
ParserCreateAny ==
    /\ parser = <<>> /\ mode = "idle" /\ nevals = 0
    /\ \E token \in TokenTypes \cup {"EOF"} :
          parser' = <<parser_create("main", <<token>>)>>
    /\ stack' = <<PAct("parser_parse", "loop", 0)>>
    /\ mode' = "parse"
    /\ UNCHANGED <<lexer, diag>>
    /\ TermUnchanged

\* parser_parse
ParserParse ==
    /\ \/ /\ At("parser_parse", "loop")
          /\ IF current_token # "EOF"
             THEN Keep(Call(Begin("semi"), "parse_statement", "entry"))
             ELSE /\ stack' = <<>>             \* return ast_create_block(...)
                  /\ mode' = "idle"
                  /\ parser' = [parser EXCEPT ![1].statements =
                                   <<Node("block", 1, lexer.position, <<>>)>>]
                  /\ lexer' = lexer
          /\ diag' = diag
       \/ /\ At("parser_parse", "semi")
          /\ Skip(";", Goto("loop"))
    /\ TermUnchanged

\* parse_statement
ParseStatement ==
    /\ \/ /\ At("parse_statement", "entry")
          /\ CASE current_token \in {";", "ERROR"} -> Take(Pop)
               [] current_token = "match" -> Take(Become("parse_match", "lparen"))
               [] current_token = "enum" -> Take(Become("parse_enum", "name"))
               [] current_token = "function" ->
                      Take(Become("parse_function", "name"))
               [] current_token = "IDENTIFIER" -> Take(Goto("identifier"))
               [] OTHER -> Keep(Expression(Pop))
          /\ diag' = diag
       \/ /\ At("parse_statement", "identifier")
          /\ CASE current_token = "=" -> Take(Expression(Pop))
               [] current_token = "(" -> Take(Become("parse_primary", "args"))
               [] OTHER -> Keep(Expression(Pop))
          /\ diag' = diag
    /\ TermUnchanged

\* parse_postfix after parse_primary: the index loop
ParsePostfix ==
    /\ \/ /\ At("parse_postfix", "index")
          /\ IF current_token = "["
             THEN Take(Expression(Begin("rbracket")))
             ELSE Keep(Pop)
          /\ diag' = diag
       \/ /\ At("parse_postfix", "rbracket")
          /\ Expect("]", Goto("index"))
    /\ TermUnchanged

\* A parse_primary that left the token it cannot use where it is
UnexpectedKept(s) == Keep(s)

\* What the last statement of parse_primary does with a token that starts
\* no expression: parser_advance
Unexpected(s) == Take(s)

\* parse_primary, with its array, map, argument and group loops
ParsePrimary ==
    /\ \/ /\ At("parse_primary", "entry")
          /\ CASE current_token = "NUMBER" -> Take(Pop) /\ diag' = diag
               [] current_token = "[" -> Take(Goto("array")) /\ diag' = diag
               [] current_token = "{" -> Take(Goto("map")) /\ diag' = diag
               [] current_token = "IDENTIFIER" ->
                      Take(Goto("identifier")) /\ diag' = diag
               [] current_token = "(" -> Take(Goto("group")) /\ diag' = diag
               [] OTHER -> Unexpected(Pop) /\ diag' = "Parse error"
       \/ /\ At("parse_primary", "array")
          /\ IF current_token \notin {"]", "EOF"}
             THEN Keep(Expression(Begin("array_sep"))) /\ diag' = diag
             ELSE Expect("]", Pop)
       \/ /\ At("parse_primary", "array_sep")
          /\ Skip(",", Goto("array"))
       \/ /\ At("parse_primary", "map")
          /\ Keep(Goto(IF current_token # "}" THEN "map_key" ELSE "map_end"))
          /\ diag' = diag
       \/ /\ At("parse_primary", "map_key")
          /\ Keep(Expression(Begin("map_colon")))
          /\ diag' = diag
       \/ /\ At("parse_primary", "map_colon")
          /\ Expect(":", Expression(Goto("map_sep")))
       \/ /\ At("parse_primary", "map_sep")
          /\ IF current_token = ","
             THEN Take(Goto("map_key"))
             ELSE Keep(Goto("map_end"))
          /\ diag' = diag
       \/ /\ At("parse_primary", "map_end")
          /\ Expect("}", Pop)
       \/ /\ At("parse_primary", "identifier")
          /\ IF current_token = "(" THEN Take(Goto("args")) ELSE Keep(Pop)
          /\ diag' = diag
       \/ /\ At("parse_primary", "args")
          /\ IF current_token \notin {")", "EOF"}
             THEN Keep(Expression(Begin("args_sep"))) /\ diag' = diag
             ELSE Expect(")", Pop)
       \/ /\ At("parse_primary", "args_sep")
          /\ Skip(",", Goto("args"))
       \/ /\ At("parse_primary", "group")
          /\ Keep(Goto(IF current_token # ")" THEN "group_item" ELSE "group_end"))
          /\ diag' = diag
       \/ /\ At("parse_primary", "group_item")
          /\ Keep(Expression(Begin("group_sep")))
          /\ diag' = diag
       \/ /\ At("parse_primary", "group_sep")
          /\ IF current_token = ","
             THEN Take(Goto("group_item"))
             ELSE Keep(Goto("group_end"))
          /\ diag' = diag
       \/ /\ At("parse_primary", "group_end")
          /\ Expect(")", Pop)
    /\ TermUnchanged

\* parse_block
ParseBlock ==
    /\ \/ /\ At("parse_block", "lbrace")
          /\ Expect("{", Goto("loop"))
       \/ /\ At("parse_block", "loop")
          /\ IF current_token \notin {"}", "EOF"}
             THEN Keep(Call(Begin("next"), "parse_statement", "entry"))
                  /\ diag' = diag
             ELSE Expect("}", Pop)
       \/ /\ At("parse_block", "next")
          /\ Keep(Goto("loop"))
          /\ diag' = diag
    /\ TermUnchanged

\* parse_function after `function`, with its parameter loop
ParseFunction ==
    /\ \/ /\ At("parse_function", "name")
          /\ IF current_token # "IDENTIFIER"
             THEN Keep(Pop) /\ diag' = "Parse error"
             ELSE Take(Goto("lparen")) /\ diag' = diag
       \/ /\ At("parse_function", "lparen")
          /\ Expect("(", Goto("params"))
       \/ /\ At("parse_function", "params")
          /\ IF current_token = "IDENTIFIER"
             THEN Take(Begin("default"))
             ELSE Keep(Goto("rparen"))
          /\ diag' = diag
       \/ /\ At("parse_function", "default")
          /\ IF current_token = "="
             THEN Take(Expression(Goto("param_sep")))
             ELSE Keep(Goto("param_sep"))
          /\ diag' = diag
       \/ /\ At("parse_function", "param_sep")
          /\ Skip(",", Goto("params"))
       \/ /\ At("parse_function", "rparen")
          /\ Expect(")", Become("parse_block", "lbrace"))
    /\ TermUnchanged

\* parse_match after `match`
ParseMatch ==
    /\ \/ /\ At("parse_match", "lparen")
          /\ Expect("(", Expression(Goto("rparen")))
       \/ /\ At("parse_match", "rparen")
          /\ Expect(")", Goto("lbrace"))
       \/ /\ At("parse_match", "lbrace")
          /\ Expect("{", Goto("loop"))
       \/ /\ At("parse_match", "loop")
          /\ CASE current_token \in {"}", "EOF"} -> Expect("}", Pop)
               [] current_token = "case" ->
                      Take(Expression(Begin("colon"))) /\ diag' = diag
               [] current_token = "default" ->
                      Take(Begin("colon")) /\ diag' = diag
               [] OTHER -> Take(Begin("next")) /\ diag' = diag
       \/ /\ At("parse_match", "colon")
          /\ Expect(":", Goto("body"))
       \/ /\ At("parse_match", "body")
          /\ Keep(IF current_token = "{"
                  THEN Call(Goto("next"), "parse_block", "lbrace")
                  ELSE Call(Goto("next"), "parse_statement", "entry"))
          /\ diag' = diag
       \/ /\ At("parse_match", "next")
          /\ Keep(Goto("loop"))
          /\ diag' = diag
    /\ TermUnchanged

\* parse_enum after `enum`
ParseEnum ==
    /\ \/ /\ At("parse_enum", "name")
          /\ IF current_token # "IDENTIFIER"
             THEN Keep(Pop) /\ diag' = "Parse error"
             ELSE Take(Goto("lbrace")) /\ diag' = diag
       \/ /\ At("parse_enum", "lbrace")
          /\ Expect("{", Goto("loop"))
       \/ /\ At("parse_enum", "loop")
          /\ CASE current_token \in {"}", "EOF"} ->
                      Keep(Goto("rbrace")) /\ diag' = diag
               [] current_token # "IDENTIFIER" ->
                      Keep(Goto("rbrace")) /\ diag' = "Parse error"
               [] OTHER -> Take(Begin("value")) /\ diag' = diag
       \/ /\ At("parse_enum", "value")
          /\ IF current_token = "="
             THEN Take(Expression(Goto("member_sep")))
             ELSE Keep(Goto("member_sep"))
          /\ diag' = diag
       \/ /\ At("parse_enum", "member_sep")
          /\ Skip(",", Goto("loop"))
       \/ /\ At("parse_enum", "rbrace")
          /\ Expect("}", Pop)
    /\ TermUnchanged

NextTerm ==
    \/ ParserCreateAny
    \/ ParserParse
    \/ ParseStatement
    \/ ParsePostfix
    \/ ParsePrimary
    \/ ParseBlock
    \/ ParseFunction
    \/ ParseMatch
    \/ ParseEnum

\* The parser is a sequential program: it takes its next step as long as it
\* has one
SpecTerm == Init /\ [][NextTerm]_vars /\ WF_vars(NextTerm)

\* The last place of a turn of each loop, and the place where the loop's
\* next turn starts
LoopEnds ==
    {<<"parser_parse", "semi", "loop">>, <<"parse_block", "next", "loop">>,
     <<"parse_match", "next", "loop">>, <<"parse_enum", "member_sep", "loop">>,
     <<"parse_function", "param_sep", "params">>,
     <<"parse_primary", "array_sep", "array">>,
     <<"parse_primary", "args_sep", "args">>,
     <<"parse_primary", "map_sep", "map_key">>,
     <<"parse_primary", "group_sep", "group_item">>,
     <<"parse_postfix", "rbracket", "index">>}

\* parser_parse has returned a block
Returned == mode = "idle" /\ parser # <<>> /\ parser[1].statements # <<>>

\* C30: every parse comes to its end with parser_parse returning a block;
\* no loop of the parser starts a next turn without the turn before having
\* consumed a token; after EOF the current token is EOF for good.
C30_ParsingTerminates ==
    /\ <>Returned
    /\ [][mode = "parse" =>
            /\ \A e \in LoopEnds :
                  (Top.k = e[1] /\ Top.ph = e[2] /\ Len(stack') = Len(stack)
                      /\ stack'[Len(stack)].ph = e[3]) =>
                     lexer'.position > Top.at
            /\ (current_token = "EOF" /\ parser' # <<>>) =>
                  parser'[1].tokens[1] = "EOF"
        ]_vars

\* A text of MaxTokens tokens with a parse error in it has been parsed to
\* its end
C30_MalformedTextParsed ==
    Returned /\ diag = "Parse error" /\ lexer.position = MaxTokens
====
